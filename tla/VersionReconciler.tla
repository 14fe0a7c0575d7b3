-------------------------- MODULE VersionReconciler --------------------------
(***************************************************************************)
(* The Version controller: it downloads the archive of a Version, stores   *)
(* it, scans it and records the outcome on the Version object, and removes *)
(* the archive when the Version is deleted.                                *)
(* services/version/internal/controller/opendepot_versions_controller.go   *)
(*                                                                         *)
(* The API server, the object storage, the upstream registry, the operator *)
(* and the clock are the environment.  A reconcile is a sequence of steps, *)
(* one per call that reads or writes something other workers or the        *)
(* environment also touch; pc[v] is where the worker that handles the key  *)
(* v stands, local[v] what it remembers from its earlier calls.  The work  *)
(* queue hands a key to one worker at a time.                              *)
(***************************************************************************)
EXTENDS ScanPolicy, FiniteSets

CONSTANTS
    Version,          \* the keys of the Version objects
    Meta,             \* what the policy package sees of each Version
    Immutable,        \* module Versions whose config sets immutable
    File,             \* the UUID7 storage names that can be generated
    Checksum,         \* the archives, told apart by their SHA256
    BinaryFindings,   \* what Trivy reports for the binary of an archive
    SourceFindings,   \* what Trivy reports for the source of an archive
    Nil,              \* the nil pointer
    Torn,             \* content of a file whose write was cut short
    PolicyLists,      \* the lists of ScanPolicies operators may leave behind
    ScanningEnabled, ScanModules, BlockOnCritical, BlockOnHigh,   \* flags
    MaxConcurrentReconciles,
    MaxTime,          \* bound of the clock
    QuickScan,        \* no exemption expires between two steps of a reconcile
    Budget            \* how often each kind of environment event may happen

EventKind == {"create", "delete", "forceSync", "policy", "upstream", "loss",
              "crash", "fault", "listFail", "scanFail"}

ASSUME VersionConstants ==
    /\ Nil \notin File \cup Checksum \cup Version
    /\ Torn \notin Checksum \cup {Nil}
    /\ IsFiniteSet(Version)
    /\ MaxConcurrentReconciles \in Nat \ {0}
    /\ MaxTime \in Nat
    /\ Budget \in [EventKind -> Nat]
    /\ PolicyLists # {}
    /\ Immutable \subseteq Version
    /\ ScanningEnabled \in BOOLEAN
    /\ \A c \in Checksum : BinaryFindings[c] # Nil /\ SourceFindings[c] # Nil

VARIABLES
    obj,       \* API server: the Version objects
    refs,      \* API server: Module.Status.ModuleVersionRefs[v].FileName
    policies,  \* API server: the ScanPolicies of the namespace
    storage,   \* object storage: file name -> content
    upstream,  \* the archive the upstream currently publishes for v
    up,        \* the controller process runs
    queue,     \* keys waiting for a worker
    timer,     \* the pending AddAfter of each key
    pc, local, \* the worker that handles each key
    sem,       \* holders of downloadSem and scanSem
    now,
    budget

api   == <<obj, refs, policies>>
world == <<upstream, now, budget>>
vars  == <<obj, refs, policies, storage, upstream, up, queue, timer, pc, local,
           sem, now, budget>>

-----------------------------------------------------------------------------
\* State

FileOrNil     == File \cup {Nil}
ChecksumOrNil == Checksum \cup {Nil}
Contents      == Checksum \cup {Nil, Torn}

Absent ==
    [exists |-> FALSE, finalizer |-> FALSE, deleting |-> FALSE,
     fileName |-> Nil, config |-> "given", forceSync |-> FALSE,
     checksum |-> Nil, synced |-> FALSE, message |-> "",
     binaryScan |-> Nil, sourceScan |-> Nil]

\* A Version as its author wrote it; "dual" gives both a module and a provider
\* config.
NewVersion(f, config) == [Absent EXCEPT !.exists = TRUE, !.fileName = f, !.config = config]

Idle == [version |-> Absent, fileName |-> Nil, config |-> "given", archive |-> Nil,
         resolved |-> Nil, binaryScan |-> Nil, sourceScan |-> Nil]

IsProvider(v) == Meta[v].kind = "Provider"

Busy == {v \in Version : pc[v] # "idle"}

\* Names that occur nowhere.
Unused == {f \in File : /\ storage[f] = Nil
                        /\ \A v \in Version : /\ obj[v].fileName # f
                                              /\ refs[v] # f
                                              /\ local[v].fileName # f}

\* Mutant: the name of the upstream file, which Versions may share.
Mutant_GeneratedShared == {CHOOSE f \in File : TRUE}

\* A generated UUID7: which of the unused names it is makes no difference.
Generated == {f \in Unused : f = CHOOSE g \in Unused : TRUE}

Init ==
    /\ obj = [v \in Version |-> Absent]
    /\ refs = [v \in Version |-> Nil]
    /\ policies \in PolicyLists
    /\ storage = [f \in File |-> Nil]
    /\ upstream \in [Version -> Checksum]
    /\ up = TRUE
    /\ queue = {}
    /\ timer = [v \in Version |-> Never]
    /\ pc = [v \in Version |-> "idle"]
    /\ local = [v \in Version |-> Idle]
    /\ sem = [download |-> Nil, scan |-> Nil]
    /\ now = 0
    /\ budget = Budget

-----------------------------------------------------------------------------
\* How a reconcile ends and how objects are written

\* Reconcile returns: the key is queued again or not.
Return(v, requeue) ==
    /\ pc' = [pc EXCEPT ![v] = "idle"]
    /\ local' = [local EXCEPT ![v] = Idle]
    /\ queue' = IF requeue THEN queue \cup {v} ELSE queue

\* An error return, or a short fixed RequeueAfter: the key comes back.
Requeue(v) == Return(v, TRUE) /\ UNCHANGED timer

\* Mutant: nobody wakes up at the expiry of an exemption.
Mutant_FinishForGood(v, resolved, enqueued) == Return(v, enqueued) /\ UNCHANGED timer

\* The last lines of Reconcile and of reconcileStoredScanPolicy: wake up at
\* the next exemption expiry, if it is still to come.
Finish(v, resolved, enqueued) ==
    LET expiry == IF resolved = Nil THEN Never ELSE resolved.nextExpiry
        due    == expiry # Never /\ expiry > now
    IN  /\ Return(v, enqueued)
        /\ timer' = [timer EXCEPT ![v] =
                        IF due /\ (@ = Never \/ expiry < @) THEN expiry ELSE @]

Goto(v, label) == pc' = [pc EXCEPT ![v] = label]

\* Only a change of the spec passes GenerationChangedPredicate.
SpecChanged(old, new) ==
    \/ old.fileName # new.fileName
    \/ old.config # new.config
    \/ old.forceSync # new.forceSync

Spend(kind) == /\ budget[kind] > 0
               /\ budget' = [budget EXCEPT ![kind] = @ - 1]

-----------------------------------------------------------------------------
\* Reconcile: the object, its finalizer and its deletion

\* Mutant: the finalizer is added only once the Version is synced.
Mutant_BranchNoFinalizer(o) ==
    CASE ~o.exists \/ (o.deleting /\ ~o.finalizer)       -> "idle"
      [] o.deleting /\ o.finalizer /\ o.fileName # Nil   -> "deleteArtifact"
      [] o.deleting /\ o.finalizer /\ o.fileName = Nil   -> "removeFinalizer"
      [] o.exists /\ ~o.deleting /\ ~o.finalizer /\ ~o.synced -> "prepare"
      [] OTHER -> IF o.config = "dual" THEN "terminal" ELSE "prepare"

\* Mutant: the archive of a Version that never synced is not deleted.
Mutant_BranchKeepsArtifact(o) ==
    CASE ~o.exists \/ (o.deleting /\ ~o.finalizer)       -> "idle"
      [] o.deleting /\ o.finalizer /\ o.synced           -> "deleteArtifact"
      [] o.deleting /\ o.finalizer /\ ~o.synced          -> "removeFinalizer"
      [] o.exists /\ ~o.deleting /\ ~o.finalizer         -> "addFinalizer"
      [] OTHER -> IF o.config = "dual" THEN "terminal" ELSE "prepare"

\* Where the object read sends the reconcile: its deletion, its finalizer,
\* a guard against what its author got wrong, or its archive.
Branch(o) ==
    CASE ~o.exists \/ (o.deleting /\ ~o.finalizer)       -> "idle"
      [] o.deleting /\ o.finalizer /\ o.fileName # Nil   -> "deleteArtifact"
      [] o.deleting /\ o.finalizer /\ o.fileName = Nil   -> "removeFinalizer"
      [] o.exists /\ ~o.deleting /\ ~o.finalizer         -> "addFinalizer"
      [] OTHER -> IF o.config = "dual" THEN "terminal" ELSE "prepare"

\* A worker takes a key and reads the Version.
Reconcile(v) ==
    /\ up
    /\ v \in queue
    /\ pc[v] = "idle"
    /\ Cardinality(Busy) < MaxConcurrentReconciles
    /\ queue' = queue \ {v}
    /\ Goto(v, Branch(obj[v]))
    /\ local' = IF Branch(obj[v]) = "idle" THEN local
                ELSE [local EXCEPT ![v].version = obj[v]]
    /\ UNCHANGED <<api, world, storage, up, timer, sem>>

\* An Update carries the resource version that was read: it is refused when
\* the object changed since.
Conflict(v) == obj[v] # local[v].version

\* Mutant: the finalizer is written without the resource version.
Mutant_AddFinalizerBlind(v) ==
    /\ pc[v] = "addFinalizer"
    /\ obj' = [obj EXCEPT ![v].finalizer = TRUE]
    /\ Requeue(v)
    /\ UNCHANGED <<refs, policies, world, storage, up, sem>>

AddFinalizer(v) ==
    /\ pc[v] = "addFinalizer"
    /\ obj' = IF Conflict(v) THEN obj ELSE [obj EXCEPT ![v].finalizer = TRUE]
    /\ Requeue(v)
    /\ UNCHANGED <<refs, policies, world, storage, up, sem>>

\* Mutant: a file that is already gone is an error.
Mutant_DeleteOnce(v) ==
    /\ pc[v] = "deleteArtifact"
    /\ storage' = [storage EXCEPT ![local[v].version.fileName] = Nil]
    /\ IF storage[local[v].version.fileName] # Nil
       THEN Goto(v, "removeFinalizer") /\ UNCHANGED <<local, queue, timer>>
       ELSE Requeue(v)
    /\ UNCHANGED <<api, world, up, sem>>

\* reconcileDeletion: DeleteObject treats a missing file as deleted.
DeleteArtifact(v) ==
    /\ pc[v] = "deleteArtifact"
    /\ storage' = [storage EXCEPT ![local[v].version.fileName] = Nil]
    /\ Goto(v, "removeFinalizer")
    /\ UNCHANGED <<api, world, up, queue, timer, local, sem>>

\* The API server drops a terminating object with its last finalizer.
RemoveFinalizer(v) ==
    /\ pc[v] = "removeFinalizer"
    /\ obj' = IF Conflict(v) THEN obj ELSE [obj EXCEPT ![v] = Absent]
    /\ Return(v, Conflict(v))
    /\ UNCHANGED <<refs, policies, world, storage, up, timer, sem>>

\* The name guard and the dual-config guard write a terminal status.
WriteTerminal(v) ==
    /\ pc[v] = "terminal"
    /\ obj' = IF Conflict(v) THEN obj
              ELSE [obj EXCEPT ![v].synced = FALSE, ![v].message = "terminal"]
    /\ Return(v, Conflict(v))
    /\ UNCHANGED <<refs, policies, world, storage, up, timer, sem>>

-----------------------------------------------------------------------------
\* Reconcile: from the spec to the stored archive

\* prepareModuleVersion: the name and the config of the Module that lists the
\* Version, else the name in the spec or a new one.  A provider Version keeps
\* its name, if it has one.
Prepare(v) ==
    LET o == local[v].version
        managed == ~IsProvider(v) /\ refs[v] # Nil
    IN  /\ pc[v] = "prepare"
        /\ \E f \in CASE managed -> {refs[v]}
                      [] ~managed /\ (IsProvider(v) \/ o.fileName # Nil) -> {o.fileName}
                      [] OTHER -> Generated :
              local' = [local EXCEPT ![v].fileName = f,
                                     ![v].config = IF managed THEN "module" ELSE o.config]
        /\ Goto(v, "fastPath")
        /\ UNCHANGED <<api, world, storage, up, queue, timer, sem>>

\* The archive is stored as the status says: nothing to download.
FastPathHit(v) ==
    LET o == local[v].version IN
    /\ o.checksum # Nil
    /\ o.synced
    /\ local[v].fileName # Nil
    /\ storage[local[v].fileName] = o.checksum
    /\ ~o.forceSync

\* reconcileStoredScanPolicy has something to look at.
HasStoredScan(o) ==
    ScanningEnabled /\ (o.binaryScan # Nil \/ o.sourceScan # Nil)

FastPath(v) ==
    /\ pc[v] = "fastPath"
    /\ IF FastPathHit(v) /\ ~HasStoredScan(local[v].version)
       THEN Return(v, FALSE)
       ELSE /\ Goto(v, IF FastPathHit(v) THEN "resolveStored" ELSE "download")
            /\ UNCHANGED <<local, queue>>
    /\ UNCHANGED <<api, world, storage, up, timer, sem>>

\* A storage error on the early check is ignored: the archive is fetched again.
FastPathFails(v) ==
    /\ pc[v] = "fastPath"
    /\ Spend("fault")
    /\ Goto(v, "download")
    /\ UNCHANGED <<api, upstream, now, storage, up, queue, timer, local, sem>>

\* downloadSem has one slot and only providers take it.
AcquireDownload(v) ==
    /\ pc[v] = "download"
    /\ IsProvider(v) => sem.download = Nil
    /\ sem' = IF IsProvider(v) THEN [sem EXCEPT !.download = v] ELSE sem
    /\ Goto(v, "fetch")
    /\ UNCHANGED <<api, world, storage, up, queue, timer, local>>

ReleaseDownload(v) ==
    sem' = IF IsProvider(v) THEN [sem EXCEPT !.download = Nil] ELSE sem

\* Mutant: the check is made for synced Versions only.
Mutant_MovedWhenSynced(v) ==
    /\ v \in Immutable
    /\ local[v].version.synced
    /\ local[v].version.checksum # Nil
    /\ local[v].version.checksum # upstream[v]

\* The archive of an immutable Version is not the one recorded.
Moved(v) ==
    /\ v \in Immutable
    /\ local[v].version.checksum # Nil
    /\ local[v].version.checksum # upstream[v]

\* fetchModuleArchive, fetchProviderArchive and the immutability check.  A
\* provider gets its file name here.
Fetch(v) ==
    /\ pc[v] = "fetch"
    /\ ReleaseDownload(v)
    /\ IF Moved(v)
       THEN /\ obj' = IF Conflict(v) THEN obj
                      ELSE [obj EXCEPT ![v].synced = FALSE, ![v].message = "error"]
            /\ Requeue(v)
       ELSE /\ \E f \in IF local[v].fileName # Nil THEN {local[v].fileName}
                                                   ELSE Generated :
                  local' = [local EXCEPT ![v].archive = upstream[v], ![v].fileName = f]
            /\ Goto(v, IF local[v].version.checksum # Nil THEN "verify" ELSE "firstPut")
            /\ UNCHANGED <<obj, queue, timer>>
    /\ UNCHANGED <<refs, policies, world, storage, up>>

\* Mutant: downloadSem stays taken.
Mutant_FetchFailsHolding(v) ==
    /\ pc[v] = "fetch"
    /\ Spend("fault")
    /\ obj' = IF Conflict(v) THEN obj ELSE [obj EXCEPT ![v].message = "error"]
    /\ Requeue(v)
    /\ UNCHANGED <<refs, policies, upstream, now, storage, up, sem>>

\* A failed download is reported in the status message only.
FetchFails(v) ==
    /\ pc[v] = "fetch"
    /\ Spend("fault")
    /\ ReleaseDownload(v)
    /\ obj' = IF Conflict(v) THEN obj ELSE [obj EXCEPT ![v].message = "error"]
    /\ Requeue(v)
    /\ UNCHANGED <<refs, policies, upstream, now, storage, up>>

\* A Version that was stored before is compared with its recorded checksum.
VerifyStored(v) ==
    /\ pc[v] = "verify"
    /\ Goto(v, IF storage[local[v].fileName] = local[v].version.checksum
               THEN "updateSpec" ELSE "put")
    /\ UNCHANGED <<api, world, storage, up, queue, timer, local, sem>>

\* Mutant: an existing file is taken for a finished upload.
Mutant_UploadIfAbsent(v) ==
    storage' = [storage EXCEPT ![local[v].fileName] =
                   IF @ = Nil THEN local[v].archive ELSE @]

Upload(v) == storage' = [storage EXCEPT ![local[v].fileName] = local[v].archive]

\* PutObject leaves FileExists unset, so a first upload is made twice.
FirstPut(v) ==
    /\ pc[v] = "firstPut"
    /\ Upload(v)
    /\ Goto(v, "put")
    /\ UNCHANGED <<api, world, up, queue, timer, local, sem>>

Put(v) ==
    /\ pc[v] = "put"
    /\ Upload(v)
    /\ Goto(v, "updateSpec")
    /\ UNCHANGED <<api, world, up, queue, timer, local, sem>>

\* Mutant: only the config is persisted.
Mutant_UpdateSpecNoName(v) ==
    /\ pc[v] = "updateSpec"
    /\ obj' = [obj EXCEPT ![v].config = local[v].config]
    /\ queue' = IF SpecChanged(obj[v], obj'[v]) THEN queue \cup {v} ELSE queue
    /\ Goto(v, IF ScanningEnabled THEN "resolve" ELSE "writeStatus")
    /\ UNCHANGED <<refs, policies, world, storage, up, sem, local, timer>>

\* The file name and the config are persisted on a fresh copy of the object.
UpdateSpec(v) ==
    /\ pc[v] = "updateSpec"
    /\ IF obj[v].exists
       THEN /\ obj' = [obj EXCEPT ![v].fileName = local[v].fileName, ![v].config = local[v].config]
            /\ queue' = IF SpecChanged(obj[v], obj'[v]) THEN queue \cup {v} ELSE queue
            /\ Goto(v, IF ScanningEnabled THEN "resolve" ELSE "writeStatus")
            /\ UNCHANGED <<local, timer>>
       ELSE UNCHANGED obj /\ Requeue(v)
    /\ UNCHANGED <<refs, policies, world, storage, up, sem>>

-----------------------------------------------------------------------------
\* Reconcile: the scan and the outcome

\* The decision in force at this instant, or the flags when the List fails.
Resolved(v, listFails) ==
    resolveScanPolicy(policies, listFails, Meta[v], BlockOnCritical, BlockOnHigh, now)

\* Which scan runs first: a provider without its owner label and a module
\* without ScanModules are not scanned at all.
FirstScan(v) ==
    CASE IsProvider(v) /\ Meta[v].ownerLabel # "" -> "binaryWait"
      [] ~IsProvider(v) /\ ScanModules            -> "sourceWait"
      [] OTHER                                    -> "writeStatus"

ResolvePolicy(v) ==
    /\ pc[v] \in {"resolve", "resolveStored"}
    /\ \E listFails \in BOOLEAN :
          /\ IF listFails THEN Spend("listFail") ELSE UNCHANGED budget
          /\ local' = [local EXCEPT ![v].resolved = Resolved(v, listFails)]
    /\ Goto(v, IF pc[v] = "resolve" THEN FirstScan(v) ELSE "applyStored")
    /\ UNCHANGED <<api, upstream, now, storage, up, queue, timer, sem>>

\* scanSem has one slot for every Trivy process.
AcquireScan(v) ==
    /\ \/ pc[v] = "binaryWait" /\ Goto(v, "binaryScan")
       \/ pc[v] = "sourceWait" /\ Goto(v, "sourceScan")
    /\ sem.scan = Nil
    /\ sem' = [sem EXCEPT !.scan = v]
    /\ UNCHANGED <<api, world, storage, up, queue, timer, local>>

Blocking(resolved, findings, type) == Apply(resolved, findings, type).blocking # 0

\* scanProviderBinary; a failed scan is logged and leaves no result, but runTrivy
\* takes exit code 1 without a report for a scan that found nothing.  The source
\* of a provider Version is scanned once only.
BinaryScan(v) ==
    LET found == BinaryFindings[local[v].archive]
        then  == IF local[v].version.sourceScan # Nil THEN "sourceDedup" ELSE "sourceWait"
    IN  /\ pc[v] = "binaryScan"
        /\ sem' = [sem EXCEPT !.scan = Nil]
        /\ \/ /\ local' = [local EXCEPT ![v].binaryScan = found]
              /\ Goto(v, IF Blocking(local[v].resolved, found, "binary")
                         THEN "persist" ELSE then)
              /\ UNCHANGED budget
           \/ /\ Spend("scanFail")
              /\ local' \in {local, [local EXCEPT ![v].binaryScan = <<>>]}
              /\ Goto(v, then)
        /\ UNCHANGED <<api, upstream, now, storage, up, queue, timer>>

\* The stored source findings of a provider are only evaluated again.
SourceDedup(v) ==
    LET found == local[v].version.sourceScan
    IN  /\ pc[v] = "sourceDedup"
        /\ local' = [local EXCEPT ![v].sourceScan = found]
        /\ Goto(v, IF Blocking(local[v].resolved, found, "source")
                   THEN "persist" ELSE "writeStatus")
        /\ UNCHANGED <<api, world, storage, up, queue, timer, sem>>

SourceType(v) == IF IsProvider(v) THEN "source" ELSE "module"

\* scanProviderSource and runModuleScan.
SourceScan(v) ==
    LET found == SourceFindings[local[v].archive]
    IN  /\ pc[v] = "sourceScan"
        /\ sem' = [sem EXCEPT !.scan = Nil]
        /\ \/ /\ local' = [local EXCEPT ![v].sourceScan = found]
              /\ Goto(v, IF Blocking(local[v].resolved, found, SourceType(v))
                         THEN "persist" ELSE "writeStatus")
              /\ UNCHANGED budget
           \/ /\ Spend("scanFail")
              /\ local' \in {local, [local EXCEPT ![v].sourceScan = <<>>]}
              /\ Goto(v, "writeStatus")
        /\ UNCHANGED <<api, upstream, now, storage, up, queue, timer>>

\* The scans the reconcile produced, on top of what the object holds.
WithScans(o, l) ==
    [o EXCEPT !.binaryScan = IF l.binaryScan # Nil THEN l.binaryScan ELSE @,
              !.sourceScan = IF l.sourceScan # Nil THEN l.sourceScan ELSE @]

\* Mutant: the block is recorded without its findings.
Mutant_PersistMessageOnly(v) ==
    /\ pc[v] = "persist"
    /\ obj' = [obj EXCEPT ![v].synced = FALSE, ![v].message = "violation"]
    /\ Requeue(v)
    /\ UNCHANGED <<refs, policies, world, storage, up, sem>>

\* The findings are kept with the block, then the error is retried.
PersistScanViolation(v) ==
    /\ pc[v] = "persist"
    /\ obj' = IF obj[v].exists
              THEN [obj EXCEPT ![v] = [WithScans(@, local[v]) EXCEPT
                                          !.synced = FALSE, !.message = "violation"]]
              ELSE obj
    /\ Requeue(v)
    /\ UNCHANGED <<refs, policies, world, storage, up, sem>>

\* The final status; without a ForceSync to reset, the end of Reconcile.
WriteStatus(v) ==
    /\ pc[v] = "writeStatus"
    /\ IF obj[v].exists
       THEN /\ obj' = [obj EXCEPT ![v] = [WithScans(@, local[v]) EXCEPT
                          !.synced = TRUE, !.checksum = local[v].archive, !.message = "ok"]]
            /\ IF local[v].version.forceSync
               THEN Goto(v, "resetForceSync") /\ UNCHANGED <<local, queue, timer>>
               ELSE Finish(v, local[v].resolved, FALSE)
       ELSE UNCHANGED obj /\ Requeue(v)
    /\ UNCHANGED <<refs, policies, world, storage, up, sem>>

ResetForceSync(v) ==
    /\ pc[v] = "resetForceSync"
    /\ IF obj[v].exists
       THEN /\ obj' = [obj EXCEPT ![v].forceSync = FALSE]
            /\ Finish(v, local[v].resolved, SpecChanged(obj[v], obj'[v]))
       ELSE UNCHANGED obj /\ Requeue(v)
    /\ UNCHANGED <<refs, policies, world, storage, up, sem>>

\* Whether the findings recorded on an object block it.
StoredBlocks(o, resolved, v) ==
    \/ o.binaryScan # Nil /\ Blocking(resolved, o.binaryScan, "binary")
    \/ o.sourceScan # Nil /\ Blocking(resolved, o.sourceScan, SourceType(v))

\* reconcileStoredScanPolicy on a fresh copy of the object.
ApplyStored(v) ==
    /\ pc[v] = "applyStored"
    /\ LET o == obj[v]
           r == local[v].resolved
       IN  IF ~o.exists THEN UNCHANGED obj /\ Requeue(v)
           ELSE /\ obj' = [obj EXCEPT ![v] =
                      CASE StoredBlocks(o, r, v) ->
                               [o EXCEPT !.synced = FALSE, !.message = "violation"]
                        [] ~StoredBlocks(o, r, v) /\ o.message = "violation" ->
                               [o EXCEPT !.synced = TRUE, !.message = "ok"]
                        [] OTHER -> o]
                /\ Finish(v, r, FALSE)
    /\ UNCHANGED <<refs, policies, world, storage, up, sem>>

-----------------------------------------------------------------------------
\* Failures

\* Calls whose error makes Reconcile return it.
CallPoints == {"addFinalizer", "deleteArtifact", "removeFinalizer", "terminal",
               "prepare", "verify", "firstPut", "put", "updateSpec", "persist",
               "writeStatus", "resetForceSync", "applyStored"}

\* Files whose upload is under way and may be left truncated.
Writing(S) == {local[v].fileName : v \in {w \in S : pc[w] \in {"firstPut", "put"}}}

CutShort(files) ==
    \E T \in SUBSET files :
        storage' = [f \in File |-> IF f \in T THEN Torn ELSE storage[f]]

CallFails(v) ==
    /\ pc[v] \in CallPoints
    /\ Spend("fault")
    /\ CutShort(Writing({v}))
    /\ Requeue(v)
    /\ UNCHANGED <<api, upstream, now, up, sem>>

\* The process dies: workers, queue, timers and semaphores are lost.
Crash ==
    /\ up
    /\ Spend("crash")
    /\ up' = FALSE
    /\ CutShort(Writing(Version))
    /\ queue' = {}
    /\ timer' = [v \in Version |-> Never]
    /\ pc' = [v \in Version |-> "idle"]
    /\ local' = [v \in Version |-> Idle]
    /\ sem' = [download |-> Nil, scan |-> Nil]
    /\ UNCHANGED <<api, upstream, now>>

\* The Create events of the first cache sync that pass skipResyncedCreate.
PassesCreate(o) ==
    /\ o.exists
    /\ o.deleting \/ o.forceSync \/ ~o.synced \/ o.checksum = Nil

\* versionsInNamespace: a ScanPolicy event enqueues every Version.
AllVersions == {v \in Version : obj[v].exists}

\* On a start the informers replay every Version and every ScanPolicy.
Restart ==
    /\ ~up
    /\ up' = TRUE
    /\ queue' = {v \in Version : PassesCreate(obj[v])}
                   \cup (IF policies # <<>> THEN AllVersions ELSE {})
    /\ UNCHANGED <<api, world, storage, timer, pc, local, sem>>

-----------------------------------------------------------------------------
\* The environment

\* Events reach a running controller only.
Notify(S) == queue' = IF up THEN queue \cup S ELSE queue

\* A Version written by hand, by the provider controller (no file name), or
\* by the module controller (with the name its Module refers to).
CreateVersion(v) ==
    /\ ~obj[v].exists
    /\ Spend("create")
    /\ \E f \in {Nil} \cup (IF IsProvider(v) THEN {} ELSE Generated),
          config \in {"given", "dual"} :
          /\ obj' = [obj EXCEPT ![v] = NewVersion(f, config)]
          /\ refs' = [refs EXCEPT ![v] = f]
    /\ Notify({v})
    /\ UNCHANGED <<policies, upstream, now, storage, up, timer, pc, local, sem>>

\* kubectl delete, or the removals of the module and provider controllers.
DeleteVersion(v) ==
    /\ obj[v].exists /\ ~obj[v].deleting
    /\ Spend("delete")
    /\ obj' = [obj EXCEPT ![v] = IF @.finalizer THEN [@ EXCEPT !.deleting = TRUE]
                                                ELSE Absent]
    /\ Notify({v})
    /\ UNCHANGED <<refs, policies, upstream, now, storage, up, timer, pc, local, sem>>

SetForceSync(v) ==
    /\ obj[v].exists /\ ~obj[v].forceSync
    /\ Spend("forceSync")
    /\ obj' = [obj EXCEPT ![v].forceSync = TRUE]
    /\ Notify({v})
    /\ UNCHANGED <<refs, policies, upstream, now, storage, up, timer, pc, local, sem>>

EditPolicies ==
    /\ Spend("policy")
    /\ \E list \in PolicyLists \ {policies} : policies' = list
    /\ Notify(AllVersions)
    /\ UNCHANGED <<obj, refs, upstream, now, storage, up, timer, pc, local, sem>>

\* The upstream tag moves to another archive.
MoveUpstream(v) ==
    /\ Spend("upstream")
    /\ \E c \in Checksum \ {upstream[v]} : upstream' = [upstream EXCEPT ![v] = c]
    /\ UNCHANGED <<api, now, storage, up, queue, timer, pc, local, sem>>

\* A bucket object is deleted out of band, or a local volume is evicted.
LoseFile(f) ==
    /\ storage[f] # Nil
    /\ Spend("loss")
    /\ storage' = [storage EXCEPT ![f] = Nil]
    /\ UNCHANGED <<api, upstream, now, up, queue, timer, pc, local, sem>>

Tick ==
    /\ now < MaxTime
    /\ QuickScan => \A v \in Version : local[v].resolved = Nil
    /\ now' = now + 1
    /\ UNCHANGED <<api, upstream, budget, storage, up, queue, timer, pc, local, sem>>

TimerFires(v) ==
    /\ timer[v] # Never /\ timer[v] <= now
    /\ timer' = [timer EXCEPT ![v] = Never]
    /\ queue' = queue \cup {v}
    /\ UNCHANGED <<api, world, storage, up, pc, local, sem>>

-----------------------------------------------------------------------------
\* A step of the worker that holds v, semaphores and failures aside.
WorkerStep(v) ==
    \/ AddFinalizer(v) \/ DeleteArtifact(v) \/ RemoveFinalizer(v)
    \/ WriteTerminal(v) \/ Prepare(v) \/ FastPath(v) \/ Fetch(v)
    \/ VerifyStored(v) \/ FirstPut(v) \/ Put(v) \/ UpdateSpec(v)
    \/ ResolvePolicy(v) \/ BinaryScan(v) \/ SourceDedup(v) \/ SourceScan(v)
    \/ PersistScanViolation(v) \/ WriteStatus(v) \/ ResetForceSync(v)
    \/ ApplyStored(v)

Failure(v) == FastPathFails(v) \/ FetchFails(v) \/ CallFails(v)

Controller(v) ==
    \/ Reconcile(v) \/ WorkerStep(v) \/ AcquireDownload(v) \/ AcquireScan(v)
    \/ TimerFires(v) \/ Failure(v)

Operator(v) ==
    CreateVersion(v) \/ DeleteVersion(v) \/ SetForceSync(v) \/ MoveUpstream(v)

Next ==
    \/ \E v \in Version : Controller(v) \/ Operator(v)
    \/ \E f \in File : LoseFile(f)
    \/ EditPolicies \/ Tick \/ Crash \/ Restart

\* A worker that runs goes on; the queue, and the goroutines blocked on a
\* channel, are served first in first out; time passes; a Deployment restarts
\* its pod.
Fairness ==
    /\ \A v \in Version :
          /\ WF_vars(WorkerStep(v)) /\ WF_vars(TimerFires(v))
          /\ SF_vars(Reconcile(v)) /\ SF_vars(AcquireDownload(v)) /\ SF_vars(AcquireScan(v))
    /\ WF_vars(Tick)
    /\ WF_vars(Restart)

Spec == Init /\ [][Next]_vars

FairSpec == Spec /\ Fairness

-----------------------------------------------------------------------------
\* Properties

Labels == CallPoints \cup
          {"idle", "fastPath", "resolveStored", "download", "fetch", "resolve",
           "binaryWait", "binaryScan", "sourceDedup", "sourceWait", "sourceScan"}

\* The findings and the decisions a reconcile can come by.
Scans == {Nil, <<>>} \cup {BinaryFindings[c] : c \in Checksum} \cup {SourceFindings[c] : c \in Checksum}

Decisions ==
    { resolveScanPolicy(list, listFails, Meta[v], BlockOnCritical, BlockOnHigh, t) :
          list \in PolicyLists, listFails \in BOOLEAN, v \in Version, t \in 0..MaxTime }

Object ==
    [exists : BOOLEAN, finalizer : BOOLEAN, deleting : BOOLEAN,
     fileName : FileOrNil, config : {"given", "dual", "module"}, forceSync : BOOLEAN,
     checksum : ChecksumOrNil, synced : BOOLEAN,
     message : {"", "terminal", "error", "violation", "ok"},
     binaryScan : Scans, sourceScan : Scans]

Worker ==
    [version : Object, fileName : FileOrNil, config : {"given", "dual", "module"},
     archive : ChecksumOrNil, resolved : Decisions \cup {Nil},
     binaryScan : Scans, sourceScan : Scans]

Typed ==
    /\ obj \in [Version -> Object]
    /\ refs \in [Version -> FileOrNil]
    /\ policies \in PolicyLists
    /\ storage \in [File -> Contents]
    /\ upstream \in [Version -> Checksum]
    /\ up \in BOOLEAN
    /\ queue \subseteq Version
    /\ timer \in [Version -> {d.nextExpiry : d \in Decisions} \cup {Never}]
    /\ pc \in [Version -> Labels]
    /\ local \in [Version -> Worker]
    /\ sem \in [download : Version \cup {Nil}, scan : Version \cup {Nil}]
    /\ now \in 0..MaxTime
    /\ budget \in [EventKind -> Nat]

Gone == \A v \in Version : ~obj[v].exists => obj[v] = Absent

\* Every variable has its type, and nothing is left of an object that is gone:
\* no stale write of a worker brings a deleted Version back in part.
TypeOK == Typed /\ Gone

\* A Version whose archive is in storage carries the finalizer, whatever the
\* order of creation, deletion, crashes and failed calls: no deletion can
\* bypass reconcileDeletion.
ArtifactProtected ==
    \A v \in Version :
        /\ obj[v].exists
        /\ obj[v].fileName # Nil
        /\ storage[obj[v].fileName] # Nil
        => obj[v].finalizer

\* An object that disappears leaves nothing stored under the name it recorded.
VanishesClean ==
    [][ \A v \in Version :
          obj[v].exists /\ ~obj'[v].exists /\ obj[v].fileName # Nil
            => storage'[obj[v].fileName] = Nil ]_vars

\* Files that belong to no Version: neither to the name in a spec nor to the
\* name a worker is about to record there.
Orphans ==
    {f \in File :
        /\ storage[f] # Nil
        /\ ~\E v \in Version : /\ obj[v].exists
                               /\ f \in {obj[v].fileName, local[v].fileName}}

\* Reconciles interrupted so far: a failed call ends one, a crash all that run.
Interruptions ==
    (Budget["crash"] - budget["crash"]) * MaxConcurrentReconciles
        + (Budget["fault"] - budget["fault"])

\* An interrupted reconcile leaves at most one file behind, and nothing else
\* does: without crashes and failed calls every stored file belongs to a
\* Version.
OrphansBounded == Cardinality(Orphans) <= Interruptions

\* "There is no stored artifact to remove" when reconcileDeletion finds no
\* file name on the Version and goes straight to its finalizer.
NothingStoredWithoutName ==
    \A v \in Version :
        pc[v] = "removeFinalizer" /\ local[v].version.fileName = Nil => Orphans = {}

\* Nobody else removed a file, and the tag of v did not move or does not count.
Undisturbed(v) ==
    /\ budget["loss"] = Budget["loss"]
    /\ v \in Immutable \/ budget["upstream"] = Budget["upstream"]

\* Storage holds, under the name of v, the archive its checksum describes.
Servable(v) == obj[v].fileName # Nil /\ storage[obj[v].fileName] = obj[v].checksum

\* A synced Version can be served, as long as nobody else removes files and the
\* upstream does not move a tag of a Version that is not immutable.
SyncedIsStored ==
    \A v \in Version :
        obj[v].exists /\ obj[v].synced /\ ~obj[v].deleting /\ Undisturbed(v) => Servable(v)

\* The checksum of an immutable Version never changes once it is recorded.
ImmutableChecksum ==
    [][ \A v \in Immutable :
          obj[v].checksum # Nil /\ obj'[v].exists => obj'[v].checksum = obj[v].checksum ]_vars

\* At most one provider download and one Trivy process run at a time, and a
\* semaphore is held by exactly the worker that is at it: whatever fails, a
\* slot is given back before the reconcile returns.
Serialized ==
    \A v \in Version : /\ pc[v] = "fetch" /\ IsProvider(v) <=> sem.download = v
                       /\ pc[v] \in {"binaryScan", "sourceScan"} <=> sem.scan = v

\* There are findings to show.
Explained(o) == \E scan \in {o.binaryScan, o.sourceScan} : scan \notin {Nil, <<>>}

\* A Version that a scan blocks shows findings an exemption can be written
\* for.
BlockedExplains == \A v \in Version : obj[v].message = "violation" => Explained(obj[v])

\* The findings recorded on the object pass the policies in force now.
Allowed(v) == ~StoredBlocks(obj[v], Resolved(v, FALSE), v)

\* A Version does not stay synced with findings that the policies in force
\* block: policy edits and expired exemptions are enforced in the end.
PolicyEnforced ==
    \A v \in Version :
        <>[](ScanningEnabled /\ obj[v].exists /\ obj[v].synced => Allowed(v))

\* A Version whose findings all pass does not stay blocked.
PolicyRelaxed ==
    \A v \in Version :
        <>[]( /\ obj[v].exists /\ ~obj[v].deleting
              /\ obj[v].config # "dual"
              /\ Allowed(v)
              => obj[v].synced )

\* A deletion completes.
DeletionCompletes == \A v \in Version : obj[v].deleting ~> ~obj[v].deleting

\* A blocked Version becomes synced only with findings that pass.
BlockedUntilAllowed ==
    [][ \A v \in Version :
          obj[v].message = "violation" /\ ~obj[v].synced /\ obj'[v].synced
            => Allowed(v)' ]_vars

-----------------------------------------------------------------------------
\* The refinement

Phase(o) == IF ~o.exists THEN "absent" ELSE IF o.deleting THEN "leaving"
            ELSE IF o.finalizer THEN "held" ELSE "free"

StoredUnder(f) == IF f = Nil THEN Nil ELSE storage[f]

Artifact == INSTANCE ArtifactLifecycle WITH
    phase    <- [v \in Version |-> Phase(obj[v])],
    stored   <- [v \in Version |-> StoredUnder(obj[v].fileName)],
    checksum <- [v \in Version |-> obj[v].checksum]

\* The controller, with its crashes, failed calls and stale reads, implements the
\* life of an artifact that the server and the other controllers count on.
ImplementsLifecycle == Artifact!LifecycleSpec

-----------------------------------------------------------------------------
\* The inductive invariant behind ArtifactProtected, VanishesClean and
\* ImmutableChecksum

\* A worker beyond the addFinalizer branch, and one that holds an archive.
Working == Labels \ {"idle", "addFinalizer"}
Fetched == {"verify", "firstPut", "put", "updateSpec", "resolve", "binaryWait",
            "binaryScan", "sourceDedup", "sourceWait", "sourceScan", "persist",
            "writeStatus"}

\* A worker past the finalizer branch works on an object that cannot go away;
\* one in that branch has read an object.
Owned ==
    \A v \in Version :
        /\ pc[v] \in Working => obj[v].exists /\ obj[v].finalizer
        /\ pc[v] = "addFinalizer" => local[v].version.exists

\* What the worker read is still true of the name and of the checksum, until
\* it writes them itself.
Fresh ==
    \A v \in Version :
        /\ pc[v] \in {"prepare", "deleteArtifact"}
              => local[v].version.fileName = obj[v].fileName
        /\ pc[v] \in Working \ {"resetForceSync"}
              => local[v].version.checksum = obj[v].checksum

\* The archive in hand is real, and for an immutable Version the recorded one.
Archived ==
    \A v \in Version : pc[v] \in Fetched =>
        /\ local[v].archive \in Checksum
        /\ v \in Immutable /\ obj[v].checksum # Nil => local[v].archive = obj[v].checksum

\* No two Versions ever share a file name.
Names(v) == {obj[v].fileName, refs[v], local[v].fileName} \ {Nil}

NamesDisjoint == \A v, w \in Version : v # w => Names(v) \cap Names(w) = {}

\* The finalizer is removed after the file.
Cleaned ==
    \A v \in Version :
        pc[v] = "removeFinalizer" /\ obj[v].fileName # Nil => storage[obj[v].fileName] = Nil

\* Whatever call of Reconcile comes next, after any crash, failure or write of
\* others: the object it works on cannot go away under it, what it read of name,
\* checksum and archive still holds, no other Version has its file name, and the
\* finalizer goes after the file.
IInv == /\ TypeOK
        /\ Owned
        /\ Fresh
        /\ Archived
        /\ NamesDisjoint
        /\ Cleaned
        /\ ArtifactProtected

-----------------------------------------------------------------------------
\* The inductive invariant behind SyncedIsStored and OrphansBounded

\* A worker without a name, with one it may still have to record, and with the
\* recorded one.
Unnamed  == {"idle", "addFinalizer", "deleteArtifact", "removeFinalizer", "terminal", "prepare"}
Naming   == {"fastPath", "resolveStored", "applyStored", "download", "fetch", "verify",
             "firstPut", "put", "updateSpec"}
Recorded == Labels \ (Unnamed \cup Naming)

\* reconcileDeletion runs for objects that terminate, from its first step to
\* the last.
Departing ==
    \A v \in Version : pc[v] \in {"deleteArtifact", "removeFinalizer"} => obj[v].deleting

\* A Version never changes its name: the reference of its Module, its spec and
\* the name in hand agree as soon as they are there.
NameKept(v) ==
    /\ obj[v].exists /\ refs[v] # Nil => obj[v].fileName = refs[v]
    /\ pc[v] \in Unnamed => local[v].fileName = Nil
    /\ pc[v] \in Naming /\ obj[v].fileName # Nil => local[v].fileName = obj[v].fileName
    /\ pc[v] \in {"verify", "firstPut", "put", "updateSpec"} => local[v].fileName # Nil
    /\ pc[v] \in Recorded => local[v].fileName = obj[v].fileName /\ obj[v].fileName # Nil

\* A synced Version has a name and a checksum; only its own worker syncs it.
SyncedHasFile(v) ==
    /\ obj[v].synced => obj[v].fileName # Nil /\ obj[v].checksum # Nil
    /\ pc[v] \in {"prepare", "fastPath"} => local[v].version.synced = obj[v].synced
    /\ pc[v] \in {"resolveStored", "applyStored"} => obj[v].synced
    /\ pc[v] = "verify" => obj[v].checksum # Nil
    /\ pc[v] = "firstPut" => obj[v].checksum = Nil

\* An undisturbed worker overwrites no file of a synced Version, and has stored
\* the archive in hand once it is past the upload.
UploadSafe(v) ==
    /\ budget["upstream"] = Budget["upstream"] =>
          /\ obj[v].checksum \in {Nil, upstream[v]}
          /\ pc[v] \in Fetched => local[v].archive = upstream[v]
    /\ Undisturbed(v) /\ pc[v] \in {"firstPut", "put"} /\ ~obj[v].deleting => ~obj[v].synced
    /\ Undisturbed(v) /\ pc[v] \in Recorded \cup {"updateSpec"}
          => storage[local[v].fileName] = local[v].archive

\* A name that is not in the spec yet has no file before the first upload.
NotYetStored(v) ==
    /\ pc[v] \in Naming \ {"put", "updateSpec"}
    /\ obj[v].fileName = Nil /\ local[v].fileName # Nil
    => storage[local[v].fileName] = Nil

\* Workers and budgets stay within their limits.
WithinLimits ==
    /\ Cardinality(Busy) <= MaxConcurrentReconciles
    /\ IsFiniteSet(Orphans)
    /\ \A k \in EventKind : budget[k] <= Budget[k]

\* A Version keeps its file name from the first upload on, a synced one has a
\* name and a checksum that its worker does not overwrite, a file not recorded
\* in a spec is in the hands of a worker or was left by an interrupted one, and
\* workers and slots stay within their limits (Reconcile, between any two calls).
SafetyInv ==
    /\ Departing
    /\ \A v \in Version : NameKept(v) /\ SyncedHasFile(v) /\ UploadSafe(v) /\ NotYetStored(v)
    /\ WithinLimits
    /\ SyncedIsStored
    /\ OrphansBounded

-----------------------------------------------------------------------------
\* The inductive invariant behind BlockedExplains

\* A blocked Version shows findings; a worker about to record a block
\* (persistScanViolation) has them in hand, and stored source findings are
\* evaluated only where there are some.
BlockedInv ==
    /\ BlockedExplains
    /\ \A v \in Version : /\ pc[v] = "persist" => Explained(local[v])
                          /\ pc[v] = "sourceDedup" => local[v].version.sourceScan # Nil
=============================================================================
