------------------------------ MODULE MCBrowse ------------------------------
(***************************************************************************)
(* Two namespaces, two modules, a provider on two platforms whose config   *)
(* has no name and one whose config has a name of its own; a caller with a *)
(* binding, one without, and one whose token does not verify.              *)
(***************************************************************************)
EXTENDS Browse

MCFlags == [anonymous |-> FALSE, oidc |-> TRUE, ui |-> TRUE, clients |-> TRUE,
            serviceAccounts |-> FALSE, writes |-> TRUE]

MCCredentials == { [token |-> "cli",    groups |-> {"dev"}],
                   [token |-> "ui",     groups |-> {}],
                   [token |-> "foreign", groups |-> {"dev"}] }

Dev    == [name |-> 2, broken |-> FALSE, groups |-> {"dev"}, modules |-> {1}, providers |-> {"*"}]
Broken == [Dev EXCEPT !.name = 1, !.broken = TRUE]

MCBindings == { {Dev}, {Dev, Broken} }

Finding(id, exempted) == [id |-> id, pkg |-> 0, severity |-> id, exempted |-> exempted]

\* A rule found twice, once exempted.
Twice == [at |-> 2, findings |-> <<Finding(0, TRUE), Finding(0, FALSE)>>]
Clean == [at |-> 1, findings |-> <<>>]
Waved == [at |-> 1, findings |-> <<Finding(0, TRUE), Finding(1, TRUE)>>]

MCScans == {Twice, Waved}

V(v, parts) == [v |-> v, parts |-> parts]

Resource(kind, ns, name, public, latest) ==
    [kind |-> kind, ns |-> ns, name |-> name, public |-> public, synced |-> TRUE, latest |-> latest,
     backend |-> "s3", config |-> 0, opentofu |-> TRUE]

Module(ns, name, version, source) ==
    [kind |-> "module", ns |-> ns, ref |-> name, owner |-> name, version |-> version, platform |-> 0,
     synced |-> TRUE, failed |-> FALSE, size |-> 1, source |-> source, binary |-> None,
     contract |-> 1, readme |-> 1, schema |-> None]

Provider(ns, name, version, platform) ==
    [Module(ns, name, version, None) EXCEPT !.kind = "provider", !.platform = platform, !.binary = Clean,
        !.contract = 0, !.readme = 0, !.schema = [key |-> 1, digest |-> 5]]

MCCluster ==
    [public |-> {1}, bindings |-> {Dev},
     resources |-> << Resource("module", 1, 1, TRUE, V(TRUE, <<1, 0>>)),
                      Resource("module", 2, 1, FALSE, V(FALSE, <<>>)),
                      Resource("provider", 1, 2, FALSE, V(FALSE, <<1>>)),
                      [Resource("provider", 1, 3, FALSE, V(FALSE, <<1>>)) EXCEPT !.config = 4] >>,
     versions |-> << Module(1, 1, V(TRUE, <<1, 0>>), Clean), Module(2, 1, V(FALSE, <<1, 0>>), Waved),
                     Provider(1, 2, V(FALSE, <<1>>), 1), Provider(1, 2, V(FALSE, <<1>>), 2) >>,
     depots |-> << [ns |-> 1, name |-> 1, public |-> TRUE, modules |-> {<<1>>}, providers |-> {<<2>>}] >>,
     maps |-> <<7, 8>>, objects |-> <<5>>, downloads |-> <<>>]

\* Read by MCBrowseNames.cfg alone: the findings the statistics count are those
\* the version pages show.  The comment at ui_stats.go:305 says the panel agrees
\* with the counts of the resources; a Version whose config does not name its
\* owner is in the one and not in the other.
PostureAgrees ==
    request.pc = "idle" =>
    \A caller \in Callers :
        LET visible == {r \in ToSet(cluster.resources) : Shown(cluster, caller, r)}
            live(v) == \E f \in ToSet(Findings(v.source) \o Findings(v.binary)) : ~f.exempted
        IN  Stats(cluster, caller).affected
              = Cardinality({i \in Named(visible) : live(cluster.versions[i])})

\* A release and a prerelease, and the first Version of the second provider.
MCFresh == { [Module(1, 1, V(FALSE, <<2, 0>>), None) EXCEPT !.contract = 2],
             Module(1, 1, V(FALSE, <<1, 0, -1>>), Twice),
             [Provider(1, 3, V(FALSE, <<1>>), 1) EXCEPT !.ref = 4, !.binary = Twice] }
=============================================================================
