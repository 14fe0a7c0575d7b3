--------------------------- MODULE RegistryServer ---------------------------
(***************************************************************************)
(* OpenTofu fetches an artifact from the registry: a module, a provider by *)
(* the registry protocol, or a provider by the network mirror protocol.    *)
(* services/server/modules.go, providers.go, storage.go                    *)
(*                                                                         *)
(* Each download takes several requests, each request several reads of the *)
(* API and of the storage, and the controllers rewrite Versions and files  *)
(* in between.  The server keeps nothing from one request to the next, so  *)
(* one client is enough.  The checksum of a file stands for its content.   *)
(***************************************************************************)
EXTENDS ServerAccess, Sequences, SequencesExt, FiniteSetsExt

CONSTANTS
    Flags,         \* how the server is started
    Credential,    \* what the client presents
    BindingSets,   \* the sets of GroupBindings operators may leave behind
    Wants,         \* what the client may be after
    Versions0, Files0,
    Rewrites,      \* [file, content]: the writes of the Version controller
    MaxChanges,    \* bound of the changes to cluster and storage
    MaxFaults      \* bound of the reads and signatures that fail

CONSTANTS NoFile, NoSum

\* What a file, and the checksum of a Version, may be.
Sums == {NoSum} \cup {Files0[f] : f \in DOMAIN Files0} \cup {w.content : w \in Rewrites}
                \cup {v.sum : v \in ToSet(Versions0)}

\* What a Version holds that the server reads.
ServerVersion ==
    [kind : {"module", "provider"}, name : STRING, number : Nat, platform : STRING,
     spelledV : BOOLEAN, configured : BOOLEAN, synced : BOOLEAN,
     presign : {"off", "fallback", "strict"}, signs : BOOLEAN,
     file : DOMAIN Files0 \cup {NoFile}, sum : Sums]

\* The name of a Version the controllers make is made of the name of its owner,
\* the number without its v, and the platform: no two have the same.
SameName(v, w) == /\ v.kind = w.kind /\ v.name = w.name
                  /\ v.number = w.number /\ v.platform = w.platform

ASSUME ServerConstants ==
    /\ MaxChanges \in Nat /\ MaxFaults \in Nat
    /\ NoFile \notin DOMAIN Files0
    /\ Versions0 \in Seq(ServerVersion)
    /\ \A i, j \in DOMAIN Versions0 : SameName(Versions0[i], Versions0[j]) => i = j
    /\ Files0 \in [DOMAIN Files0 -> Sums]
    /\ \A w \in Rewrites : w.file \in DOMAIN Files0
    /\ \A w \in Wants : w.flow \in {"module", "provider", "mirror"}

VARIABLES versions, files, owners, bindings, want, session, changes, faults

cluster == <<versions, files, owners, bindings, changes>>
serverVars == <<cluster, want, session, faults>>

NoUrl == [file |-> NoFile, sum |-> NoSum]
NoSession == [pc |-> "start", url |-> NoUrl, promised |-> NoUrl, sums |-> NoUrl,
              presign |-> "off", signs |-> FALSE, body |-> NoSum, raced |-> FALSE, counted |-> 0]

ServerInit ==
    /\ versions = Versions0 /\ files = Files0
    /\ owners = {<<v.kind, v.name>> : v \in ToSet(Versions0)}
    /\ bindings \in BindingSets
    /\ want \in Wants
    /\ session = NoSession
    /\ changes = 0 /\ faults = 0

-----------------------------------------------------------------------------
\* Looking Versions up

\* A list is searched by the positions of what matches.
First(hits) == IF hits = {} THEN NoUrl ELSE versions[Min(hits)]

\* getModuleVersion: by name, which contains the normalised version.
moduleVersion ==
    First({i \in DOMAIN versions : /\ versions[i].kind = "module" /\ versions[i].name = want.name
                                   /\ versions[i].number = want.number})

\* getProviderVersionResource: the first of the version, whatever its platform.
getProviderVersionResource ==
    First({i \in DOMAIN versions : /\ versions[i].kind = "provider" /\ versions[i].name = want.name
                                   /\ versions[i].number = want.number})

\* listMirrorProviderVersions
mirrorVersions ==
    {i \in DOMAIN versions : /\ versions[i].kind = "provider" /\ versions[i].name = want.name
                             /\ versions[i].synced
                             /\ versions[i].file # NoFile /\ versions[i].sum # NoSum}

\* Those of a version and platform, the version without its leading v.
mirrorOf(number, platform) ==
    {i \in mirrorVersions : versions[i].number = number /\ versions[i].platform = platform}

\* buildProviderMirrorVersionsResponse
mirrorIndex == {versions[i].number : i \in mirrorVersions}

\* buildProviderMirrorArchivesResponse: for each platform the last one listed.
mirrorArchives(number) ==
    [p \in {versions[i].platform : i \in {j \in mirrorVersions : versions[j].number = number}} |->
        [file |-> versions[Max(mirrorOf(number, p))].file,
         sum  |-> versions[Max(mirrorOf(number, p))].sum]]

\* Mutant: the version is compared as the Version spells it.
Mutant_findSpelled(number, platform) ==
    First({i \in mirrorOf(number, platform) : ~versions[i].spelledV})

\* findMirrorProviderVersion: the first of the version and platform.
findMirrorProviderVersion(number, platform) == First(mirrorOf(number, platform))

Allowed ==
    LET a == Authenticate(Flags, Credential, bindings, {}, TRUE) IN
    /\ a.status = 200
    /\ a.binding # Nobody => isResourceAllowed(a.binding, want.kind, want.name)

-----------------------------------------------------------------------------
\* Steps of a download.  A request that is refused ends it; the client runs init
\* again.

At(pc) == session.pc = pc
Quiet == UNCHANGED <<cluster, want, faults>>
Fault == faults < MaxFaults /\ faults' = faults + 1
NoFault == UNCHANGED faults
Go(pc) == session' = [session EXCEPT !.pc = pc]
Give(pc, field, v) == session' = [session EXCEPT !.pc = pc, ![field] = [file |-> v.file, sum |-> v.sum]]
Abort == session' = NoSession

\* The start of serveProviderVersionDownload.
Resolve(v) ==
    session' = [session EXCEPT !.pc = IF v.presign = "off" THEN "redirect" ELSE "presign",
                               !.url = [file |-> v.file, sum |-> v.sum],
                               !.presign = v.presign, !.signs = v.signs]

\* The Module or Provider must be there.
Onboarded == <<want.kind, want.name>> \in owners

\* getModuleVersions: the versions of the Module's spec, in whatever state.
ListModuleVersions ==
    /\ At("start") /\ want.flow = "module"
    /\ IF Allowed /\ Onboarded THEN Go("locate") ELSE Abort
    /\ Quiet

\* getProviderVersions: the numbers of the Versions.
ListProviderVersions ==
    /\ At("start") /\ want.flow = "provider"
    /\ IF Allowed /\ Onboarded
             /\ \E v \in ToSet(versions) : /\ v.kind = "provider" /\ v.name = want.name
                                            /\ v.number = want.number
       THEN Go("metadata") ELSE Abort
    /\ Quiet

\* getDownloadModuleUrl up to the path: a Version that is not found ends in a
\* reply without a location, one without file, storage or checksum in a 503.
LocateModule ==
    LET v == moduleVersion IN
    /\ At("locate")
    /\ IF ~Allowed \/ v = NoUrl THEN Abort
       ELSE IF ~v.configured \/ v.file = NoFile \/ v.sum = NoSum THEN Abort
       ELSE Give("wrapper", "url", v)
    /\ Quiet

\* resolveModuleArchiveWrapper: the archive is opened to find its root; then the
\* download counts and the client gets the URL.
ReadWrapper ==
    /\ At("wrapper")
    /\ \/ Fault /\ Abort
       \/ /\ NoFault
          /\ IF files[session.url.file] = NoSum THEN Abort
             ELSE session' = [session EXCEPT !.pc = "proxy", !.counted = @ + 1]
    /\ UNCHANGED <<cluster, want>>

\* getProviderPackageMetadata: file and checksum of the package, and the keys.
PackageMetadata ==
    LET v == getProviderVersionResource IN
    /\ At("metadata")
    /\ IF ~Allowed \/ v = NoUrl THEN Abort
       ELSE IF v.file = NoFile \/ v.sum = NoSum \/ ~Flags.keys THEN Abort
       ELSE Give("sums", "promised", v)
    /\ Quiet

\* getProviderPackageSHA256SUMS reads the Version once more ...
PackageSums ==
    LET v == getProviderVersionResource IN
    /\ At("sums")
    /\ IF v = NoUrl THEN Abort
       ELSE IF v.file = NoFile \/ v.sum = NoSum THEN Abort ELSE Give("signature", "sums", v)
    /\ Quiet

\* ... and so does getProviderPackageSHA256SUMSSignature.  The client goes on when
\* what was signed is what it got, and has the promised checksum.
PackageSignature ==
    LET v == getProviderVersionResource IN
    /\ At("signature")
    /\ IF v = NoUrl \/ ~Flags.keys THEN Abort
       ELSE IF [file |-> v.file, sum |-> v.sum] = session.sums /\ session.sums = session.promised
       THEN Go("download") ELSE Abort
    /\ Quiet

\* serveProviderPackageDownload
PackageDownload ==
    LET v == getProviderVersionResource IN
    /\ At("download")
    /\ IF v = NoUrl THEN Abort
       ELSE IF v.sum = NoSum \/ v.file = NoFile \/ ~v.configured THEN Abort
       ELSE Resolve(v)
    /\ Quiet

\* authorizeMirrorProvider, getProviderMirrorVersions
MirrorIndex ==
    /\ At("start") /\ want.flow = "mirror"
    /\ IF Allowed /\ Onboarded /\ want.number \in mirrorIndex
       THEN Go("archives") ELSE Abort
    /\ Quiet

\* getProviderMirrorArchives: the client takes the archive of its platform.
MirrorArchives ==
    /\ At("archives")
    /\ IF Allowed /\ Onboarded
             /\ want.platform \in DOMAIN mirrorArchives(want.number)
       THEN Give("serve", "promised", mirrorArchives(want.number)[want.platform]) ELSE Abort
    /\ Quiet

\* serveProviderMirrorArchive: the file asked for must be the one found.
MirrorServe ==
    LET v == findMirrorProviderVersion(want.number, want.platform) IN
    /\ At("serve")
    /\ IF v = NoUrl THEN Abort
       ELSE IF v.file # session.promised.file \/ ~v.configured THEN Abort
       ELSE Resolve(v)
    /\ Quiet

-----------------------------------------------------------------------------
\* serveProviderVersionDownload: a presigned URL when the file has the checksum
\* of the Version and the backend signs; else, unless the fallback is off, the
\* proxy.

\* Mutant: what cannot be presigned is refused.
Mutant_NotPresigned == Abort

NotPresigned == IF session.presign = "fallback" THEN Go("redirect") ELSE Abort

\* initStorageBackend, GetObjectChecksum
PresignCheck ==
    /\ At("presign")
    /\ \/ Fault /\ NotPresigned
       \/ /\ NoFault
          /\ IF files[session.url.file] = session.url.sum
             THEN session' = [session EXCEPT !.pc = "sign", !.raced = FALSE]
             ELSE NotPresigned
    /\ UNCHANGED <<cluster, want>>

\* Mutant: the download counts before it is known whether the backend signs.
Mutant_PresignObjectCounts ==
    /\ At("sign")
    /\ NoFault
    /\ session' = [session EXCEPT !.counted = @ + 1,
                      !.pc = IF session.signs THEN "presigned"
                             ELSE IF session.presign = "fallback" THEN "redirect" ELSE "start"]
    /\ UNCHANGED <<cluster, want>>

\* PresignObject: a file system never signs.
PresignObject ==
    /\ At("sign")
    /\ \/ Fault /\ NotPresigned
       \/ /\ NoFault
          /\ IF session.signs
             THEN session' = [session EXCEPT !.pc = "presigned", !.counted = @ + 1]
             ELSE NotPresigned
    /\ UNCHANGED <<cluster, want>>

\* The redirect to the proxy, with the checksum of the Version.
Redirect ==
    /\ At("redirect")
    /\ session' = [session EXCEPT !.pc = "proxy", !.counted = @ + 1]
    /\ Quiet

\* The client reads the object from the storage itself.
FetchPresigned ==
    /\ At("presigned")
    /\ IF files[session.url.file] = NoSum THEN Abort
       ELSE session' = [session EXCEPT !.pc = "body", !.body = files[session.url.file]]
    /\ Quiet

\* Mutant: the checksum of the URL is not compared.
Mutant_ProxyCheckNone ==
    /\ At("proxy")
    /\ \/ Fault /\ Abort
       \/ /\ NoFault
          /\ IF files[session.url.file] # NoSum
             THEN session' = [session EXCEPT !.pc = "open", !.raced = FALSE] ELSE Abort
    /\ UNCHANGED <<cluster, want>>

\* The serveModuleFrom... handlers and getObjectFromStorageSystem: the checksum
\* of the object first ...
ProxyCheck ==
    /\ At("proxy")
    /\ \/ Fault /\ Abort
       \/ /\ NoFault
          /\ IF files[session.url.file] # NoSum /\ files[session.url.file] = session.url.sum
             THEN session' = [session EXCEPT !.pc = "open", !.raced = FALSE] ELSE Abort
    /\ UNCHANGED <<cluster, want>>

\* ... the object itself afterwards, by a read of its own.
ProxyOpen ==
    /\ At("open")
    /\ \/ Fault /\ Abort
       \/ /\ NoFault
          /\ IF files[session.url.file] = NoSum THEN Abort
             ELSE session' = [session EXCEPT !.pc = "body", !.body = files[session.url.file]]
    /\ UNCHANGED <<cluster, want>>

\* OpenTofu compares a provider with the promised checksum, a module with nothing.
Accept ==
    /\ At("body")
    /\ IF want.flow = "module" \/ session.body = session.promised.sum THEN Go("accepted") ELSE Abort
    /\ Quiet

\* The same client, or another, once more.
Again ==
    /\ At("accepted")
    /\ Abort
    /\ Quiet

-----------------------------------------------------------------------------
\* Meanwhile

Change == changes < MaxChanges /\ changes' = changes + 1

\* A file is written, or deleted; a download between check and read has a race.
Write(file, content) ==
    /\ Change /\ files[file] # content
    /\ files' = [files EXCEPT ![file] = content]
    /\ session' = IF session.url.file = file THEN [session EXCEPT !.raced = TRUE] ELSE session
    /\ UNCHANGED <<versions, owners, bindings, want, faults>>

\* The Version controller records what it wrote, or that it has to sync again.
Record(i) ==
    /\ Change /\ versions[i].file # NoFile /\ files[versions[i].file] # NoSum
    /\ versions' = [versions EXCEPT ![i].sum = files[versions[i].file], ![i].synced = TRUE]
    /\ UNCHANGED <<files, owners, bindings, want, session, faults>>

Unsync(i) ==
    /\ Change /\ versions[i].synced
    /\ versions' = [versions EXCEPT ![i].synced = FALSE]
    /\ UNCHANGED <<files, owners, bindings, want, session, faults>>

RemoveVersion(i) ==
    /\ Change
    /\ versions' = RemoveAt(versions, i)
    /\ UNCHANGED <<files, owners, bindings, want, session, faults>>

EditOwner(o) ==
    /\ Change
    /\ owners' = IF o \in owners THEN owners \ {o} ELSE owners \cup {o}
    /\ UNCHANGED <<versions, files, bindings, want, session, faults>>

EditBindings(b) ==
    /\ Change /\ b # bindings
    /\ bindings' = b
    /\ UNCHANGED <<versions, files, owners, want, session, faults>>

Download ==
    \/ ListModuleVersions \/ ListProviderVersions \/ LocateModule \/ ReadWrapper
    \/ PackageMetadata \/ PackageSums \/ PackageSignature \/ PackageDownload
    \/ MirrorIndex \/ MirrorArchives \/ MirrorServe
    \/ PresignCheck \/ PresignObject \/ Redirect \/ FetchPresigned
    \/ ProxyCheck \/ ProxyOpen \/ Accept

ServerNext ==
    \/ Download \/ Again
    \/ \E w \in Rewrites : Write(w.file, w.content)
    \/ \E i \in DOMAIN versions : Record(i) \/ Unsync(i) \/ RemoveVersion(i)
    \/ \E o \in {<<v.kind, v.name>> : v \in ToSet(Versions0)} : EditOwner(o)
    \/ \E b \in BindingSets : EditBindings(b)

\* A client retries, and a request is answered.
ServerSpec == ServerInit /\ [][ServerNext]_serverVars /\ WF_serverVars(Download)

-----------------------------------------------------------------------------
\* Properties

\* A body that has another checksum than the URL it was asked by was written
\* while it was being served: outside that window between the comparison and the
\* read no request delivers anything but the file its Version recorded, through
\* the proxy or by a presigned URL (getObjectFromStorageSystem,
\* serveProviderVersionDownload).
DeliveredOrRaced ==
    session.pc \in {"body", "accepted"} => session.body = session.url.sum \/ session.raced

\* A download that is delivered was counted once, whichever protocol it came by
\* and whether or not presigning failed on the way (recordDownload is called in
\* three places).
CountedOnce ==
    session.pc \in {"body", "accepted"} => session.counted = 1

\* The pages of the mirror agree: a version in the index has archives, and the
\* archive listed for a platform is the file the download finds, although the
\* list of archives keeps the last Version of a platform and the download takes
\* the first.
MirrorAgrees ==
    \A n \in mirrorIndex :
        /\ DOMAIN mirrorArchives(n) # {}
        /\ \A p \in DOMAIN mirrorArchives(n) :
               findMirrorProviderVersion(n, p).file = mirrorArchives(n)[p].file

-----------------------------------------------------------------------------
\* The inductive invariant behind them

Urls == [file : DOMAIN Files0 \cup {NoFile}, sum : Sums]

Uncounted == {"start", "locate", "wrapper", "metadata", "sums", "signature", "download",
              "archives", "serve", "presign", "sign", "redirect"}
Counted   == {"proxy", "presigned", "open", "body", "accepted"}

Sessions ==
    [pc : Uncounted \cup Counted, url : Urls, promised : Urls, sums : Urls,
     presign : {"off", "fallback", "strict"}, signs : BOOLEAN, body : Sums, raced : BOOLEAN,
     counted : 0..1]

ServerTypeOK ==
    /\ versions \in Seq(ServerVersion)
    /\ files \in [DOMAIN Files0 -> Sums]
    /\ session \in Sessions

\* A session beyond the lookup has a file to deliver.
Located ==
    session.pc \in Counted \cup {"wrapper", "presign", "sign", "redirect"}
        => session.url.file \in DOMAIN Files0

\* After the comparison the file is the one compared, until it is rewritten.
Compared ==
    session.pc \in {"sign", "presigned", "open"}
        => files[session.url.file] = session.url.sum \/ session.raced

\* recordDownload is behind exactly the steps that count.
CountedAt == session.counted = IF session.pc \in Counted THEN 1 ELSE 0

NamedApart == \A i, j \in DOMAIN versions : SameName(versions[i], versions[j]) => i = j

\* Where a download stands tells what it has: a file once it was looked up, a
\* checksum that was compared before the read, and one count behind the step
\* that calls recordDownload; and no two Versions share a name.
ServerInv ==
    /\ ServerTypeOK
    /\ Located
    /\ Compared
    /\ CountedAt
    /\ NamedApart
    /\ DeliveredOrRaced

-----------------------------------------------------------------------------
\* What the client is after is there to be had.
Ready(v) == v # NoUrl /\ v.configured /\ v.file # NoFile /\ v.sum # NoSum /\ files[v.file] = v.sum
Available ==
    /\ Allowed /\ Onboarded
    /\ CASE want.flow = "module" -> moduleVersion # NoUrl /\ Ready(moduleVersion)
         [] want.flow = "provider" ->
               /\ Flags.keys
               /\ getProviderVersionResource # NoUrl /\ Ready(getProviderVersionResource)
               /\ getProviderVersionResource.presign = "strict" => getProviderVersionResource.signs
         [] want.flow = "mirror" ->
               \E i \in mirrorOf(want.number, want.platform) :
                   Ready(versions[i]) /\ (versions[i].presign = "strict" => versions[i].signs)

\* A client that keeps trying gets an artifact that stays available, however the
\* cluster changed before and whatever presigning does.
Served == <>[]Available => []<>(session.pc = "accepted")

\* The package a client of the registry protocol accepts is one of the platform
\* it asked for (getProviderPackageMetadata: "for a specific provider
\* version/OS/arch tuple").
ProviderPlatform ==
    session.pc = "accepted" /\ want.flow = "provider" => session.body.platform = want.platform
=============================================================================
