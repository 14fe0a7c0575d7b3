------------------------------ MODULE MCSupply ------------------------------
(***************************************************************************)
(* One Depot that configures a module and a provider, the Provider with    *)
(* its Versions on one or two platforms, and upstream registries that      *)
(* publish releases.                                                       *)
(***************************************************************************)
EXTENDS ProviderReconciler

CONSTANTS vpc, aws, linux, darwin

\* Two tags of one version, and a tag that is no version.
MCTag    == {"v1", "1.0", "v2", "nightly"}
MCNumber == [t \in MCTag |-> CASE t \in {"v1", "1.0"} -> 1 [] t = "v2" -> 2
                               [] OTHER -> 0]

Config(name, platforms, limit, accepts) ==
    [name |-> name, platforms |-> platforms, limit |-> limit, accepts |-> accepts,
     storage |-> Unset, format |-> Unset, valid |-> TRUE]

Vpc  == Config(vpc, {}, 0, {1, 2})
Aws  == Config(aws, {linux}, 1, {1, 2})
Both == [Aws EXCEPT !.platforms = {linux, darwin}, !.storage = "gcs", !.limit = 0]
Bad  == [Vpc EXCEPT !.valid = FALSE]

Global == [storage |-> "s3", format |-> "zip"]

MCDepot == [modules |-> <<Vpc>>, providers |-> <<Both>>, global |-> Global]
MCSpecs == { [modules |-> <<>>,    providers |-> <<Aws>>,  global |-> Global],
             [modules |-> <<Bad>>, providers |-> <<Both>>, global |-> Global] }

MCReleases == [n \in Resource |-> IF n = vpc THEN <<"v2", "nightly", "1.0", "v1">> ELSE <<"v1">>]

MCUpcoming == [n \in Resource |-> IF n = vpc THEN <<>> ELSE <<"v2">>]

MCLabel == [n \in Provider |-> n]

MCBudget == [edit |-> 1, publish |-> 1, disturb |-> 1]
=============================================================================
