---------------------------- MODULE BrowseViews ----------------------------
(***************************************************************************)
(* The pages of the registry UI as functions of what their requests read.  *)
(* services/server/ui_browse.go, ui_stats.go, stats_prometheus.go,         *)
(* ui_contract.go, ui_provider_schema.go, ui_assembly_export.go            *)
(*                                                                         *)
(* What was read is a record c: the labelled namespaces, the resources,    *)
(* Versions and Depots in the order of the API, the ConfigMaps and stored  *)
(* objects (0: missing or unreadable) and the download counters.  Names,   *)
(* namespaces and platforms are numbers in alphabetical order.             *)
(*                                                                         *)
(* A version is [v, parts]: whether it is spelled with a "v", and its      *)
(* parts; a number below 10 is itself and a word is a negative number, in  *)
(* alphabetical order.                                                     *)
(***************************************************************************)
EXTENDS ServerAccess, Integers, Sequences, FiniteSets, SequencesExt

CONSTANTS
    None,              \* a nil pointer
    DefaultPageSize,   \* 20
    MaxPageSize,       \* 100
    PopularLimit       \* 10

ASSUME PageConstants ==
    /\ DefaultPageSize \in 1..MaxPageSize
    /\ PopularLimit \in Nat

-----------------------------------------------------------------------------
\* Lists

\* The first entry of a list at one of the positions.
FirstAt(s, positions) == IF positions = {} THEN None ELSE s[Min(positions)]

\* The entries of a list at the positions, in their order.
Entries(s, positions) ==
    LET place(k) == CHOOSE i \in positions : Cardinality({j \in positions : j < i}) = k - 1
    IN  [k \in 1..Cardinality(positions) |-> s[place(k)]]

-----------------------------------------------------------------------------
\* Order of versions

\* compareVersionDesc: the first part that differs decides, a missing part is
\* the oldest and a word is older than a number.
compareVersionDesc(a, b) ==
    \E i \in DOMAIN a : /\ \A j \in 1..(i-1) : j \in DOMAIN b /\ a[j] = b[j]
                        /\ i \in DOMAIN b => a[i] > b[i]

\* The first of the newest of a list of Versions.
Newest(versions) ==
    FirstAt(versions, {i \in DOMAIN versions : \A j \in DOMAIN versions :
                          ~compareVersionDesc(versions[j].version.parts, versions[i].version.parts)})

\* resolveLatestModuleVersion: what the status says, else the newest.
LatestParts(latest, versions) ==
    IF latest.parts # <<>> THEN latest.parts
    ELSE LET n == Newest(versions) IN IF n = None THEN <<>> ELSE n.version.parts

\* The order of the spellings: a character of a word is above every digit.
Char(p) == IF p < 0 THEN 100 + p ELSE p
StringLess(a, b) ==
    \/ ~a.v /\ b.v
    \/ /\ a.v = b.v
       /\ \/ \E i \in DOMAIN a.parts \cap DOMAIN b.parts :
                /\ \A j \in 1..(i-1) : a.parts[j] = b.parts[j]
                /\ Char(a.parts[i]) < Char(b.parts[i])
          \/ Len(a.parts) < Len(b.parts) /\ IsPrefix(a.parts, b.parts)

-----------------------------------------------------------------------------
\* Scan findings: [id, pkg (0: a misconfiguration), severity, exempted]

Severity   == 0..4   \* CRITICAL, HIGH, MEDIUM, LOW, UNKNOWN
NoSeverity == 5

Findings(scan) == IF scan = None THEN <<>> ELSE scan.findings
Scanned(scan)  == IF scan = None THEN 0 ELSE scan.at

\* Live findings by severity, exempted ones apart.
Tally(findings) ==
    [live     |-> [s \in Severity |-> Cardinality({i \in DOMAIN findings :
                                        ~findings[i].exempted /\ findings[i].severity = s})],
     exempted |-> Cardinality({i \in DOMAIN findings : findings[i].exempted})]

browseScanCounts(findings) == IF findings = <<>> THEN None ELSE Tally(findings)

highestSeverity(counts) ==
    IF counts = None THEN NoSeverity
    ELSE Min({s \in Severity : counts.live[s] > 0} \cup {NoSeverity})

severityRank(s) == IF s = NoSeverity THEN 4 ELSE s

\* Mutant: the first finding of a rule stands for all of them.
Mutant_dedupFirst(findings) ==
    LET key(f) == <<f.id, f.pkg>>
    IN  Entries(findings, {i \in DOMAIN findings :
                              \A j \in 1..(i-1) : key(findings[j]) # key(findings[i])})

\* deduplicateFindings: the first of equal findings stays; an exempted and a
\* live one are not equal.
deduplicateFindings(findings) ==
    LET key(f) == <<f.id, f.pkg, f.exempted>>
    IN  Entries(findings, {i \in DOMAIN findings :
                              \A j \in 1..(i-1) : key(findings[j]) # key(findings[i])})

-----------------------------------------------------------------------------
\* Cards

\* browseListModuleVersions; browseListProviderVersions, providerVersionsFor
VersionsAt(c, kind, ns, name) ==
    {i \in DOMAIN c.versions : /\ c.versions[i].kind = kind
                               /\ c.versions[i].ns = ns
                               /\ c.versions[i].ref = name}

VersionsOf(c, kind, ns, name) == Entries(c.versions, VersionsAt(c, kind, ns, name))

Problem(v) == ~v.synced \/ v.failed
anyVersionUnsynced(versions) == \E i \in DOMAIN versions : Problem(versions[i])

IsPublic(c, r) == r.ns \in c.public /\ r.public

\* enrichResourceWithDownloads: every version counts.
Downloads(c, r) ==
    LET keys == {k \in DOMAIN c.downloads : k.ns = r.ns /\ k.kind = r.kind /\ k.name = r.name}
    IN  MapThenSumSet(LAMBDA k : c.downloads[k], keys)

\* moduleToCard, enrichModuleCard: the scan of the latest version.
ModuleCard(c, r) ==
    LET versions == VersionsOf(c, "module", r.ns, r.name)
        latest   == LatestParts(r.latest, versions)
        scan     == FirstAt(versions, {i \in DOMAIN versions :
                        versions[i].version.parts = latest /\ versions[i].source # None})
    IN  [kind |-> "module", ns |-> r.ns, name |-> r.name, public |-> IsPublic(c, r),
         synced |-> r.synced, latest |-> r.latest, unsynced |-> anyVersionUnsynced(versions),
         platforms |-> {}, downloads |-> 0,
         counts  |-> IF scan = None THEN None ELSE browseScanCounts(scan.source.findings),
         scanned |-> IF scan = None THEN 0 ELSE scan.source.at]

\* findProviderSourceScanFromVersions: of one version, or of the newest scanned.
SourceScan(versions, wanted) ==
    LET scanned == {i \in DOMAIN versions : versions[i].source # None}
        v == IF wanted = <<>> THEN Newest(Entries(versions, scanned))
             ELSE FirstAt(versions, {i \in scanned : versions[i].version.parts = wanted})
    IN  IF v = None THEN None ELSE v.source

\* The binary scan behind the badge: the latest version on the alphabetically
\* first of the platforms asked for.
BadgeScan(versions, latest) ==
    LET scans  == {i \in DOMAIN versions :
                      versions[i].version.parts = latest /\ versions[i].binary # None}
        lowest == Min({versions[i].platform : i \in scans})
    IN  IF scans = {} THEN None
        ELSE FirstAt(versions, {i \in scans : versions[i].platform = lowest}).binary

\* providerToCard, enrichProviderCard: the platforms asked for narrow the
\* platforms and the badge, not the list.
ProviderCard(c, r, platforms) ==
    LET versions == VersionsOf(c, "provider", r.ns, r.name)
        offered  == Entries(versions, {i \in DOMAIN versions : versions[i].platform \in platforms})
        badge    == BadgeScan(offered, LatestParts(r.latest, versions))
        source   == SourceScan(versions, <<>>)
    IN  [kind |-> "provider", ns |-> r.ns, name |-> r.name, public |-> IsPublic(c, r),
         synced |-> r.synced, latest |-> r.latest, unsynced |-> anyVersionUnsynced(versions),
         platforms |-> {offered[i].platform : i \in DOMAIN offered}, downloads |-> 0,
         counts  |-> browseScanCounts(Findings(badge) \o Findings(source)),
         scanned |-> Max({Scanned(badge), Scanned(source)})]

Card(c, r, platforms) == IF r.kind = "module" THEN ModuleCard(c, r) ELSE ProviderCard(c, r, platforms)

-----------------------------------------------------------------------------
\* The list of resources.  A query is [namespaces ({}: all), kinds, search (the
\* cards the text occurs in), synced, severity, platforms, publicOnly, by, desc,
\* page, size].

Shown(c, caller, r) == Visible(IsPublic(c, r), FALSE, caller, r.kind, r.name)

\* browseCollectModules, then browseCollectProviders; only the list counts the
\* downloads of a card.
Collected(c, caller, q) ==
    LET wanted(r) == /\ r.kind \in q.kinds
                     /\ q.namespaces = {} \/ r.ns \in q.namespaces
                     /\ Visible(IsPublic(c, r), q.publicOnly, caller, r.kind, r.name)
        picked(kind) == Entries(c.resources, {i \in DOMAIN c.resources :
                            c.resources[i].kind = kind /\ wanted(c.resources[i])})
        all == picked("module") \o picked("provider")
    IN  [i \in DOMAIN all |-> [Card(c, all[i], q.platforms) EXCEPT !.downloads = Downloads(c, all[i])]]

\* applyBrowseFilters
Passes(card, q) ==
    /\ card.name \in q.search
    /\ q.synced = "any" \/ (q.synced = "true") = card.synced
    /\ q.severity # None => LET h == highestSeverity(card.counts)
                            IN  h # NoSeverity /\ severityRank(h) <= severityRank(q.severity)

\* The comparison of sortBrowseItems.
Less(by, a, b) ==
    LET rank(x) == severityRank(highestSeverity(x.counts)) IN
    CASE by = "namespace"      -> a.ns < b.ns \/ (a.ns = b.ns /\ a.name < b.name)
      [] by = "latest_version" -> StringLess(a.latest, b.latest)
      [] by = "synced"         -> IF a.synced # b.synced THEN a.synced ELSE a.name < b.name
      [] by = "severity"       -> rank(a) < rank(b) \/ (rank(a) = rank(b) /\ a.name < b.name)
      [] by = "last_scanned"   -> a.scanned < b.scanned
      [] OTHER                 -> a.name < b.name \/ (a.name = b.name /\ a.ns < b.ns)

\* The items sorted; less holds the pairs of indices in order.  Items that tie
\* keep their order (sort.Slice inserts one by one up to 12 items).
SortedBy(items, less) ==
    LET order == SetToSortSeq(DOMAIN items, LAMBDA i, j :
                    <<i, j>> \in less \/ (<<j, i>> \notin less /\ i < j))
    IN  [i \in DOMAIN items |-> items[order[i]]]


PageOf(items, page, size) ==
    LET start == Min({(page - 1) * size, Len(items)})
    IN  SubSeq(items, start + 1, Min({start + size, Len(items)}))

\* What is not a positive number is the default.
PageNumber(page) == IF page > 0 THEN page ELSE 1
PageLength(size) == IF size > 0 THEN Min({size, MaxPageSize}) ELSE DefaultPageSize

\* sortBrowseItems
Sorted(items, q) ==
    SortedBy(items, {p \in (DOMAIN items) \X (DOMAIN items) :
        IF q.desc THEN Less(q.by, items[p[2]], items[p[1]]) ELSE Less(q.by, items[p[1]], items[p[2]])})

\* handleBrowseResources
ResourceList(c, caller, q) ==
    LET cards  == Collected(c, caller, q)
        sorted == Sorted(Entries(cards, {i \in DOMAIN cards : Passes(cards[i], q)}), q)
    IN  [items |-> PageOf(sorted, PageNumber(q.page), PageLength(q.size)), total |-> Len(sorted)]

-----------------------------------------------------------------------------
\* One resource

Find(c, kind, ns, name) ==
    FirstAt(c.resources, {i \in DOMAIN c.resources : /\ c.resources[i].kind = kind
                                                    /\ c.resources[i].ns = ns
                                                    /\ c.resources[i].name = name})

NotFound == [status |-> 404]

\* The resource is there and visible: every page of one resource starts so.
Reachable(c, caller, kind, ns, name) ==
    LET r == Find(c, kind, ns, name) IN r # None /\ Shown(c, caller, r)

\* moduleVersionSummaries, providerVersionSummaries
Summary(r, v) ==
    LET scan == IF r.kind = "module" THEN v.source ELSE v.binary
    IN  [version |-> IF r.kind = "module" THEN v.version ELSE [v.version EXCEPT !.v = FALSE],
         synced |-> v.synced, failed |-> v.failed, platform |-> v.platform,
         counts |-> browseScanCounts(Findings(scan)), downloads |-> 0]

Summaries(c, r) ==
    LET versions == VersionsOf(c, r.kind, r.ns, r.name)
    IN  [i \in DOMAIN versions |-> Summary(r, versions[i])]

\* enrichVersionSummariesWithDownloads: the counter of the version as the page
\* spells it.
WithDownloads(c, r, summaries) ==
    LET key(s) == [ns |-> r.ns, kind |-> r.kind, name |-> r.name, version |-> s.version]
    IN  [i \in DOMAIN summaries |-> [summaries[i] EXCEPT !.downloads =
            IF key(summaries[i]) \in DOMAIN c.downloads THEN c.downloads[key(summaries[i])] ELSE 0]]

NewestFirst(summaries) ==
    SortedBy(summaries, {p \in (DOMAIN summaries) \X (DOMAIN summaries) :
        compareVersionDesc(summaries[p[1]].version.parts, summaries[p[2]].version.parts)})

\* browseDepotForModule, browseDepotForProvider: the first Depot of the
\* namespace whose status has the name.
DepotFor(c, r) ==
    FirstAt(c.depots, {i \in DOMAIN c.depots :
        LET d == c.depots[i]
        IN  d.ns = r.ns /\ <<r.name>> \in (IF r.kind = "module" THEN d.modules ELSE d.providers)})

\* collectBinaryFindingsForVersion: by platform, of one version or the newest
\* that has findings.
BinaryFindings(versions, wanted) ==
    LET found == {i \in DOMAIN versions :
                     /\ versions[i].binary # None /\ Findings(versions[i].binary) # <<>>
                     /\ wanted = <<>> \/ versions[i].version.parts = wanted}
        on(p) == Entries(versions, {i \in found : versions[i].platform = p})
    IN  [p \in {versions[i].platform : i \in found} |->
            deduplicateFindings(Newest(on(p)).binary.findings)]

\* browseModuleReadme: of the first Version of the latest version that has one.
Readme(c, versions, latest) ==
    LET v == FirstAt(versions, {i \in DOMAIN versions :
                        versions[i].version.parts = latest /\ versions[i].readme # 0})
    IN  IF v = None THEN 0 ELSE c.maps[v.readme]

\* handleBrowseResourceDetail
Detail(c, caller, kind, ns, name) ==
    IF ~Reachable(c, caller, kind, ns, name) THEN NotFound
    ELSE LET r        == Find(c, kind, ns, name)
             versions == VersionsOf(c, kind, ns, name)
             newest   == SourceScan(versions, <<>>)
         IN  [status |-> 200, card |-> Card(c, r, {v.platform : v \in ToSet(versions)}),
              versions |-> Summaries(c, r), depot |-> DepotFor(c, r), backend |-> r.backend,
              source |-> IF kind = "module" THEN deduplicateFindings(Findings(newest))
                         ELSE Findings(newest),
              binary |-> IF kind = "module" THEN <<>> ELSE BinaryFindings(versions, <<>>),
              readme |-> IF kind = "module" THEN Readme(c, versions, LatestParts(r.latest, versions))
                         ELSE 0]

\* A query of Versions is [search, status, platforms, page, size].
VersionPasses(s, q) ==
    /\ s.version.parts \in q.search
    /\ CASE q.status = "true"        -> ~Problem(s)
         [] q.status = "false"       -> Problem(s)
         [] q.status = "progressing" -> ~s.synced /\ ~s.failed
         [] OTHER                    -> TRUE
    /\ q.platforms = {} \/ s.platform \in q.platforms

filterAndPaginateVersions(all, q) ==
    LET filtered == Entries(all, {i \in DOMAIN all : VersionPasses(all[i], q)})
    IN  [status |-> 200, items |-> PageOf(filtered, PageNumber(q.page), PageLength(q.size)),
         total |-> Len(filtered), platforms |-> {all[i].platform : i \in DOMAIN all}]

\* handleBrowseVersionsList: newest first.
VersionsList(c, caller, kind, ns, name, q) ==
    IF ~Reachable(c, caller, kind, ns, name) THEN NotFound
    ELSE LET r == Find(c, kind, ns, name)
         IN  filterAndPaginateVersions(NewestFirst(WithDownloads(c, r, Summaries(c, r))), q)

\* The distinct versions of some Versions, newest first.
VersionNames(versions) == SetToSortSeq({v.version.parts : v \in versions}, compareVersionDesc)

\* handleBrowseScanFindings: a module version that was not scanned gives way to
\* the newest scanned one, a provider version to none.
ScanFindings(c, caller, kind, ns, name, wanted, wantedBinary) ==
    IF ~Reachable(c, caller, kind, ns, name) THEN NotFound
    ELSE LET versions == VersionsOf(c, kind, ns, name)
             scanned  == {v \in ToSet(versions) : v.source # None}
             exact    == SourceScan(versions, wanted)
             scan     == IF exact = None /\ kind = "module" THEN SourceScan(versions, <<>>) ELSE exact
             binaries == {v \in ToSet(versions) : Findings(v.binary) # <<>>}
         IN  [status |-> 200, source |-> deduplicateFindings(Findings(scan)),
              scannedVersions |-> VersionNames(scanned),
              binary |-> IF kind = "module" THEN <<>> ELSE BinaryFindings(versions, wantedBinary),
              binaryVersions |-> IF kind = "module" THEN <<>> ELSE VersionNames(binaries)]

-----------------------------------------------------------------------------
\* Contracts, provider schemas and what an assembly resolves

\* The Versions of a module that have a contract.
WithContract(c, ns, name, version) ==
    {i \in VersionsAt(c, "module", ns, name) :
        c.versions[i].version.parts = version /\ c.versions[i].contract # 0}

ContractOf(c, v) == IF v = None THEN 0 ELSE c.maps[v.contract]

Target(r, versions, wanted) == IF wanted # <<>> THEN wanted ELSE LatestParts(r.latest, versions)

\* handleBrowseContract: 0 is "unavailable".
Contract(c, caller, ns, name, wanted) ==
    IF ~Reachable(c, caller, "module", ns, name) THEN NotFound
    ELSE LET versions == VersionsOf(c, "module", ns, name)
             target   == Target(Find(c, "module", ns, name), versions, wanted)
         IN  [status |-> 200, version |-> target,
              contract |-> ContractOf(c, FirstAt(c.versions, WithContract(c, ns, name, target)))]

\* Versions are looked up by the name in the config, where it has one.
ConfigName(r) == IF r.config = 0 THEN r.name ELSE r.config

\* decodeProviderSchema: the object must have the digest of the reference.
SchemaOf(c, v) == IF v = None THEN 0
                  ELSE IF c.objects[v.schema.key] = v.schema.digest THEN v.schema.digest ELSE 0

\* The Versions of a provider that have a schema.
WithSchema(c, ns, name, version) ==
    {i \in VersionsAt(c, "provider", ns, name) :
        /\ c.versions[i].version.parts = version
        /\ c.versions[i].synced /\ c.versions[i].schema # None}

\* handleBrowseProviderSchema
ProviderSchema(c, caller, ns, name, wanted) ==
    IF ~Reachable(c, caller, "provider", ns, name) THEN NotFound
    ELSE LET r        == Find(c, "provider", ns, name)
             versions == VersionsOf(c, "provider", ns, ConfigName(r))
             target   == Target(r, versions, wanted)
         IN  [status |-> 200, version |-> target,
              schema |-> SchemaOf(c, FirstAt(c.versions, WithSchema(c, ns, ConfigName(r), target)))]

\* Mutant: any version of the module will do.
Mutant_ResolveAny(c, caller, node) ==
    LET r        == Find(c, node.kind, node.ns, node.name)
        at       == {i \in VersionsAt(c, "module", node.ns, node.name) :
                        c.versions[i].synced /\ c.versions[i].contract # 0}
        document == IF node.kind = "module" THEN ContractOf(c, FirstAt(c.versions, at))
                    ELSE SchemaOf(c, FirstAt(c.versions,
                                             WithSchema(c, node.ns, ConfigName(r), node.version)))
    IN  IF ~Reachable(c, caller, node.kind, node.ns, node.name) THEN NotFound
        ELSE IF document = 0 THEN [status |-> 422] ELSE [status |-> 200, document |-> document]

\* resolveAssemblyModule, resolveAssemblyProvider: one node of a canvas; 422
\* is a diagnostic that is collected, 404 ends the export.
ResolveNode(c, caller, node) ==
    LET r        == Find(c, node.kind, node.ns, node.name)
        document ==
            IF node.kind = "module"
            THEN ContractOf(c, FirstAt(c.versions,
                     {i \in WithContract(c, node.ns, node.name, node.version) : c.versions[i].synced}))
            ELSE IF r.opentofu
                 THEN SchemaOf(c, FirstAt(c.versions,
                                          WithSchema(c, node.ns, ConfigName(r), node.version)))
                 ELSE 0
    IN  IF ~Reachable(c, caller, node.kind, node.ns, node.name) THEN NotFound
        ELSE IF document = 0 THEN [status |-> 422] ELSE [status |-> 200, document |-> document]

\* handleAssemblyExport up to the documents the model is built from: modules
\* first, the first resource that is not found decides.
Assembly(c, caller, nodes, maxNodes) ==
    LET answers == [n \in nodes |-> ResolveNode(c, caller, n)]
    IN  CASE Cardinality(nodes) > maxNodes -> [status |-> 413]
          [] Cardinality(nodes) <= maxNodes /\ \E n \in nodes : answers[n].status = 404 -> NotFound
          [] OTHER -> IF \E n \in nodes : answers[n].status = 422 THEN [status |-> 422]
                      ELSE [status |-> 200, documents |-> [n \in nodes |-> answers[n].document]]

-----------------------------------------------------------------------------
\* Statistics and Depots

\* Mutant: exempted findings count as live ones too.
Mutant_PostureAll(versions) ==
    LET all == FlattenSeq([i \in DOMAIN versions |->
                  Findings(versions[i].source) \o Findings(versions[i].binary)])
    IN  Tally([i \in DOMAIN all |-> [all[i] EXCEPT !.exempted = FALSE]])

\* accumulateFinding over all findings of the visible Versions
Posture(versions) ==
    Tally(FlattenSeq([i \in DOMAIN versions |->
        Findings(versions[i].source) \o Findings(versions[i].binary)]))

\* mostDownloadedForStats, sortPopularResources
Popular(c, visible) ==
    LET counted == {r \in visible : \E k \in DOMAIN c.downloads :
                                        k.ns = r.ns /\ k.kind = r.kind /\ k.name = r.name}
        key(r)  == <<r.ns, r.kind, r.name>>
        before(a, b) ==
            \/ Downloads(c, a) > Downloads(c, b)
            \/ /\ Downloads(c, a) = Downloads(c, b)
               /\ \/ a.ns < b.ns
                  \/ a.ns = b.ns /\ a.kind = "module" /\ b.kind = "provider"
                  \/ a.ns = b.ns /\ a.kind = b.kind /\ a.name < b.name
        sorted == SetToSortSeq(counted, before)
    IN  SubSeq([i \in DOMAIN sorted |-> [key |-> key(sorted[i]), downloads |-> Downloads(c, sorted[i])]],
               1, Min({PopularLimit, Len(sorted)}))

\* handleBrowseStats: a Version counts with the owner it references.
Stats(c, caller) ==
    LET visible  == {r \in ToSet(c.resources) : Shown(c, caller, r)}
        owned(v) == \E r \in visible : r.kind = v.kind /\ r.ns = v.ns /\ r.name = v.owner
        versions == Entries(c.versions, {i \in DOMAIN c.versions : owned(c.versions[i])})
        number(P(_)) == Cardinality({i \in DOMAIN versions : P(versions[i])})
        live(v) == \E f \in ToSet(Findings(v.source) \o Findings(v.binary)) : ~f.exempted
    IN  [modules   |-> Cardinality({r \in visible : r.kind = "module"}),
         providers |-> Cardinality({r \in visible : r.kind = "provider"}),
         versions  |-> Len(versions),
         failed    |-> number(LAMBDA v : v.failed),
         synced    |-> number(LAMBDA v : ~v.failed /\ v.synced),
         unsynced  |-> number(LAMBDA v : ~v.failed /\ ~v.synced),
         posture   |-> Posture(versions),
         affected  |-> number(live),
         backends  |-> [b \in {r.backend : r \in visible} |->
                           Cardinality({r \in visible : r.backend = b})],
         bytes     |-> MapThenSumSet(LAMBDA i : versions[i].size, DOMAIN versions),
         downloads |-> MapThenSumSet(LAMBDA k : c.downloads[k],
                           {k \in DOMAIN c.downloads : \E r \in visible :
                               k.ns = r.ns /\ k.kind = r.kind /\ k.name = r.name}),
         popular   |-> Popular(c, visible)]

\* Depots are visible by their labels, and all of them to whoever has a binding.
DepotShown(c, caller, d) == IsPublic(c, d) \/ caller.all \/ caller.binding # Nobody

\* handleBrowseDepots
Depots(c, caller) == Entries(c.depots, {i \in DOMAIN c.depots : DepotShown(c, caller, c.depots[i])})

\* handleBrowseDepotsGraph: an edge needs a reference "namespace/name", a pair
\* here; a plain name gives none.
Qualified(refs) == {ref \in refs : Len(ref) = 2}
Graph(c, caller) ==
    LET depots == ToSet(Depots(c, caller)) IN
    [depots |-> depots,
     nodes  |-> {r \in ToSet(c.resources) : Shown(c, caller, r)},
     edges  |-> UNION {{<<d, "module", ref>> : ref \in Qualified(d.modules)}
                       \cup {<<d, "provider", ref>> : ref \in Qualified(d.providers)} : d \in depots}]

\* handleBrowseNamespaces
NamespaceList(c) == c.public
=============================================================================
