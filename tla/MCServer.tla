------------------------------ MODULE MCServer ------------------------------
(***************************************************************************)
(* A module and a provider for two platforms.                              *)
(***************************************************************************)
EXTENDS RegistryServer

Content(platform, revision) == [platform |-> platform, revision |-> revision]

Version(kind, name, platform, spelledV, presign, signs, file) ==
    [kind |-> kind, name |-> name, number |-> 1, platform |-> platform, spelledV |-> spelledV,
     configured |-> TRUE, synced |-> TRUE, presign |-> presign, signs |-> signs,
     file |-> file, sum |-> Content(platform, 1)]

MCVersions ==
    <<[Version("module", "vpc", "any", TRUE, "off", FALSE, "m") EXCEPT !.synced = FALSE, !.sum = NoSum],
      Version("provider", "aws", "darwin", FALSE, "fallback", FALSE, "d"),
      Version("provider", "aws", "linux", TRUE, "strict", TRUE, "l")>>

MCFiles == [m |-> Content("any", 1), d |-> Content("darwin", 1), l |-> Content("linux", 1)]

MCRewrites ==
    {[file |-> "m", content |-> Content("any", 2)], [file |-> "d", content |-> Content("darwin", 2)],
     [file |-> "l", content |-> Content("linux", 2)], [file |-> "l", content |-> NoSum]}

MCWants ==
    {[kind |-> "module", name |-> "vpc", flow |-> "module", number |-> 1, platform |-> "any"]}
    \cup {[kind |-> "provider", name |-> "aws", flow |-> f, number |-> 1, platform |-> p] :
              f \in {"provider", "mirror"}, p \in {"linux", "darwin"}}

Binding(name, modules, providers, broken) ==
    [name |-> name, groups |-> {"dev"}, broken |-> broken, modules |-> modules, providers |-> providers]

MCBindingSets ==
    {{Binding(2, {"vpc"}, {"*"}, FALSE)}, {Binding(1, {}, {}, TRUE), Binding(2, {"vpc"}, {"*"}, FALSE)}}

MCFlags == [anonymous |-> FALSE, oidc |-> TRUE, ui |-> FALSE, clients |-> FALSE,
            serviceAccounts |-> FALSE, writes |-> FALSE, keys |-> TRUE]
MCCredential == [token |-> "cli", groups |-> {"dev"}]
=============================================================================
