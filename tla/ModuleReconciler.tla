-------------------------- MODULE ModuleReconciler --------------------------
(***************************************************************************)
(* The Module controller beside the Version controller: it creates,        *)
(* rewrites and deletes the Versions a Module lists and chooses their file *)
(* names.                                                                  *)
(* services/module/internal/controller/opendepot_modules_controller.go     *)
(*                                                                         *)
(* One Module owns every Version of the model.  Its versions are written   *)
(* as canonical tags, so a key stands for its tag; Meta[v].number is its   *)
(* rank in the semantic version order.                                     *)
(***************************************************************************)
EXTENDS VersionReconciler

CONSTANTS
    ModuleSpecs,     \* the lists of versions operators write
    PatientOperator, \* the list is edited only while both controllers rest
    HistoryLimit,    \* ModuleConfig.VersionHistoryLimit, 0 when it is not set
    ModuleBudget     \* how often each kind of Module event may happen

\* Edits of the list of versions, and everything else that happens to the
\* Module and to its controller.
ModuleEvent == {"edit", "disturb"}

ASSUME ModuleConstants ==
    /\ HistoryLimit \in Nat
    /\ ModuleBudget \in [ModuleEvent -> Nat]
    /\ \A s \in ModuleSpecs : s \in Seq(Version)
    /\ \A v \in Version : Meta[v].kind = "Module" /\ Meta[v].number \in Nat

VARIABLES
    module,   \* API server: the Module; its ModuleVersionRefs are refs
    mup,      \* the Module controller runs
    mqueue,   \* the Module waits for the worker
    mpc,      \* where the worker stands
    mlocal,   \* what it remembers
    mbudget

mvars   == <<module, mup, mqueue, mpc, mlocal, mbudget>>
allVars == <<vars, mvars>>
\* What the Module controller never touches.
others  == <<policies, world, storage, up, timer, pc, local, sem>>

NoModule == [exists |-> FALSE, versions |-> <<>>, forceSync |-> FALSE,
             synced |-> FALSE, latest |-> Nil]
NoRefs   == [v \in Version |-> Nil]

\* The module variable of Reconcile, the versions still to process, the
\* moduleVersionRefs map, the Version read, the latest version and the
\* Versions to delete.
MIdle == [module |-> NoModule, todo |-> <<>>, refs |-> NoRefs, version |-> Absent,
          latest |-> Nil, doomed |-> {}]

ModuleInit ==
    /\ Init
    /\ module = NoModule
    /\ mup = TRUE
    /\ mqueue = FALSE
    /\ mpc = "idle"
    /\ mlocal = MIdle
    /\ mbudget = ModuleBudget

Listed(m) == {m.versions[i] : i \in DOMAIN m.versions}

MSpend(kind) == /\ mbudget[kind] > 0
                /\ mbudget' = [mbudget EXCEPT ![kind] = @ - 1]

\* Every change of the Module, its status included, is an event: the
\* controller watches Modules without a predicate.
Changed(m, r) == mup /\ (m # module \/ r # refs)

\* Mutant: an error is logged and dropped.
Mutant_MReturnForgets(requeue) ==
    /\ mpc' = "idle"
    /\ mlocal' = MIdle
    /\ UNCHANGED mqueue

\* Reconcile returns: an error puts the Module back into the queue.
MReturn(requeue) ==
    /\ mpc' = "idle"
    /\ mlocal' = MIdle
    /\ mqueue' = (mqueue \/ requeue)

-----------------------------------------------------------------------------
\* Reconcile: one round of the loop over the versions

\* Where the loop goes on.
Round(todo) == IF todo = <<>> THEN "latest" ELSE "get"

ModuleReconcile ==
    /\ mup /\ mqueue /\ mpc = "idle"
    /\ mqueue' = FALSE
    /\ IF module.exists
       THEN /\ mpc' = Round(module.versions)
            /\ mlocal' = [MIdle EXCEPT !.module = module, !.todo = module.versions]
       ELSE UNCHANGED <<mpc, mlocal>>
    /\ UNCHANGED <<vars, module, mup, mbudget>>

\* Any error of the Get counts as not found.
GetVersion ==
    LET v == Head(mlocal.todo) IN
    /\ mpc = "get"
    /\ \/ /\ obj[v].exists
          /\ mlocal' = [mlocal EXCEPT !.version = obj[v]]
          /\ mpc' = "update"
          /\ UNCHANGED mbudget
       \/ /\ IF obj[v].exists THEN MSpend("disturb") ELSE UNCHANGED mbudget
          /\ mpc' = "refs"
          /\ UNCHANGED mlocal
    /\ UNCHANGED <<vars, module, mup, mqueue>>

\* Names that occur nowhere, in no memory either: a UUID7 does not repeat.
NewNames == {f \in Unused : \A w \in Version : f \notin {mlocal.refs[w], local[w].version.fileName}}

\* A new file name goes into the status first; the map holds the versions
\* processed so far and replaces the one in the status.
WriteRefs ==
    LET v == Head(mlocal.todo) IN
    /\ mpc = "refs"
    /\ IF module.exists
       THEN \E f \in {g \in NewNames : g = CHOOSE h \in NewNames : TRUE} :
              LET r == [mlocal.refs EXCEPT ![v] = f]
                  m == [module EXCEPT !.synced = TRUE]
              IN  /\ refs' = r
                  /\ module' = m
                  /\ mqueue' = (mqueue \/ Changed(m, r))
                  /\ mlocal' = [mlocal EXCEPT !.refs = r, !.module = m]
                  /\ mpc' = "create"
       ELSE MReturn(TRUE) /\ UNCHANGED <<module, refs>>
    /\ UNCHANGED <<obj, queue, others, mup, mbudget>>

\* The Version is created unless it exists by now; an error is only logged.
CreateOwned ==
    LET v == Head(mlocal.todo) IN
    /\ mpc = "create"
    /\ \/ /\ obj' = IF obj[v].exists THEN obj
                    ELSE [obj EXCEPT ![v] = NewVersion(mlocal.refs[v], "given")]
          /\ Notify({w \in {v} : ~obj[v].exists})
          /\ UNCHANGED mbudget
       \/ MSpend("disturb") /\ UNCHANGED <<obj, queue>>
    /\ mlocal' = [mlocal EXCEPT !.todo = Tail(@)]
    /\ mpc' = Round(Tail(mlocal.todo))
    /\ UNCHANGED <<refs, others, module, mup, mqueue>>

\* Mutant: the Update path generates a file name too.
Mutant_RewrittenRenamed(o) ==
    IF o.deleting THEN Absent
    ELSE [o EXCEPT !.finalizer = FALSE, !.config = "given", !.forceSync = FALSE,
                   !.fileName = CHOOSE f \in Unused : TRUE]

\* versionForModule: the object the Update sends has the labels, the spec and
\* no finalizers; a terminating object without finalizers is dropped.
Rewritten(o) ==
    IF o.deleting THEN Absent
    ELSE [o EXCEPT !.finalizer = FALSE, !.config = "given", !.forceSync = FALSE]

\* An existing Version is replaced, with the resource version that was read:
\* the retries of a conflict use the same one.
UpdateOwned ==
    LET v == Head(mlocal.todo)
        o == mlocal.version
    IN  /\ mpc = "update"
        /\ IF obj[v] = o
           THEN /\ obj' = [obj EXCEPT ![v] = Rewritten(o)]
                /\ Notify({w \in {v} : SpecChanged(o, Rewritten(o)) \/ ~Rewritten(o).exists})
                /\ mlocal' = [mlocal EXCEPT !.refs[v] = o.fileName, !.todo = Tail(@)]
                /\ mpc' = Round(Tail(mlocal.todo))
                /\ UNCHANGED mqueue
           ELSE MReturn(TRUE) /\ UNCHANGED <<obj, queue>>
        /\ UNCHANGED <<refs, others, module, mup, mbudget>>

-----------------------------------------------------------------------------
\* Reconcile: after the loop

\* The places of a list that semver.Sort puts after place i.
Newer(versions, i) ==
    {j \in DOMAIN versions :
        LET m == Meta[versions[i]].number
            n == Meta[versions[j]].number
        IN  n > m \/ (n = m /\ j > i)}

\* The place of a list with k places after it once the list is sorted.
Place(versions, k) == CHOOSE i \in DOMAIN versions : Cardinality(Newer(versions, i)) = k

\* VersionsToKeep: the tail of the sorted list.
VersionsToKeep(versions) ==
    [i \in 1..HistoryLimit |-> versions[Place(versions, HistoryLimit - i)]]

GetLatestVersion(versions) ==
    CHOOSE v \in {versions[i] : i \in DOMAIN versions} :
        \A i \in DOMAIN versions : Meta[versions[i]].number <= Meta[v].number

AfterTrim(m) == IF m.forceSync THEN "reset" ELSE "status"

\* Mutant: trims only from two versions above the limit on.
Mutant_LatestLenient ==
    LET versions == mlocal.module.versions IN
    /\ mpc = "latest"
    /\ IF versions = <<>> \/ HistoryLimit > Len(versions)
       THEN MReturn(TRUE)
       ELSE /\ mlocal' = [mlocal EXCEPT !.latest = GetLatestVersion(versions)]
            /\ mpc' = IF HistoryLimit > 0 /\ HistoryLimit + 1 < Len(versions) THEN "trim"
                      ELSE AfterTrim(mlocal.module)
            /\ UNCHANGED mqueue
    /\ UNCHANGED <<vars, module, mup, mbudget>>

\* No version at all is an error, and a limit above their number a panic,
\* which the controller runtime turns into one.
Latest ==
    LET versions == mlocal.module.versions IN
    /\ mpc = "latest"
    /\ IF versions = <<>> \/ HistoryLimit > Len(versions)
       THEN MReturn(TRUE)
       ELSE /\ mlocal' = [mlocal EXCEPT !.latest = GetLatestVersion(versions)]
            /\ mpc' = IF HistoryLimit > 0 /\ HistoryLimit < Len(versions) THEN "trim"
                      ELSE AfterTrim(mlocal.module)
            /\ UNCHANGED mqueue
    /\ UNCHANGED <<vars, module, mup, mbudget>>

\* The list that was trimmed is the one read earlier.
Trim ==
    LET m == [module EXCEPT !.versions = VersionsToKeep(mlocal.module.versions)] IN
    /\ mpc = "trim"
    /\ IF module.exists
       THEN /\ module' = m
            /\ mqueue' = (mqueue \/ Changed(m, refs))
            /\ mlocal' = [mlocal EXCEPT !.module = m]
            /\ mpc' = AfterTrim(m)
       ELSE MReturn(TRUE) /\ UNCHANGED module
    /\ UNCHANGED <<vars, mup, mbudget>>

ModuleResetForceSync ==
    LET m == [module EXCEPT !.forceSync = FALSE] IN
    /\ mpc = "reset"
    /\ IF module.exists
       THEN /\ module' = m
            /\ mqueue' = (mqueue \/ Changed(m, refs))
            /\ mpc' = "status"
            /\ UNCHANGED mlocal
       ELSE MReturn(TRUE) /\ UNCHANGED module
    /\ UNCHANGED <<vars, mup, mbudget>>

ModuleStatus ==
    LET m == [module EXCEPT !.synced = TRUE, !.latest = mlocal.latest] IN
    /\ mpc = "status"
    /\ IF module.exists
       THEN /\ module' = m
            /\ refs' = mlocal.refs
            /\ mqueue' = (mqueue \/ Changed(m, mlocal.refs))
            /\ mlocal' = [mlocal EXCEPT !.module = m]
            /\ mpc' = "list"
       ELSE MReturn(TRUE) /\ UNCHANGED <<module, refs>>
    /\ UNCHANGED <<obj, queue, others, mup, mbudget>>

\* ReconcileVersionRemovals: the Versions that carry the label of the Module
\* and are not in its list are deleted one by one.
ListOwned ==
    LET doomed == {v \in Version : obj[v].exists} \ Listed(mlocal.module) IN
    /\ mpc = "list"
    /\ IF doomed = {} THEN MReturn(FALSE)
       ELSE /\ mlocal' = [mlocal EXCEPT !.doomed = doomed]
            /\ mpc' = "delete"
            /\ UNCHANGED mqueue
    /\ UNCHANGED <<vars, module, mup, mbudget>>

\* What a Delete leaves of an object.
Deleted(o) == IF o.finalizer THEN [o EXCEPT !.deleting = TRUE] ELSE Absent

\* A Version that is gone is an error.
DeleteOwned ==
    /\ mpc = "delete"
    /\ \E v \in mlocal.doomed :
          IF obj[v].exists
          THEN /\ obj' = [obj EXCEPT ![v] = Deleted(@)]
               /\ Notify({w \in {v} : obj'[v] # obj[v]})
               /\ IF mlocal.doomed = {v} THEN MReturn(FALSE)
                  ELSE /\ mlocal' = [mlocal EXCEPT !.doomed = @ \ {v}]
                       /\ UNCHANGED <<mpc, mqueue>>
          ELSE MReturn(TRUE) /\ UNCHANGED <<obj, queue>>
    /\ UNCHANGED <<refs, others, module, mup, mbudget>>

-----------------------------------------------------------------------------
\* Failures and the environment

\* A call fails and Reconcile returns its error.
ModuleCallFails ==
    /\ mpc \in {"refs", "update", "trim", "reset", "status", "list", "delete"}
    /\ MSpend("disturb")
    /\ MReturn(TRUE)
    /\ UNCHANGED <<vars, module, mup>>

ModuleCrash ==
    /\ mup
    /\ MSpend("disturb")
    /\ mup' = FALSE
    /\ mqueue' = FALSE
    /\ mpc' = "idle"
    /\ mlocal' = MIdle
    /\ UNCHANGED <<vars, module>>

ModuleRestart ==
    /\ ~mup
    /\ mup' = TRUE
    /\ mqueue' = module.exists
    /\ UNCHANGED <<vars, module, mpc, mlocal, mbudget>>

\* Neither controller has anything to do.
Settled ==
    /\ mup /\ ~mqueue /\ mpc = "idle"
    /\ up /\ queue = {} /\ Busy = {}

\* An operator creates the Module or edits its list of versions.
WriteModule ==
    /\ MSpend("edit")
    /\ PatientOperator => Settled
    /\ module.exists \/ mbudget["edit"] = ModuleBudget["edit"]
    /\ \E list \in ModuleSpecs :
          /\ list # module.versions
          /\ module' = [module EXCEPT !.exists = TRUE, !.versions = list]
    /\ mqueue' = mup
    /\ UNCHANGED <<vars, mup, mpc, mlocal>>

ForceModule ==
    /\ module.exists /\ ~module.forceSync
    /\ MSpend("disturb")
    /\ module' = [module EXCEPT !.forceSync = TRUE]
    /\ mqueue' = mup
    /\ UNCHANGED <<vars, mup, mpc, mlocal>>

RemoveModule ==
    /\ module.exists
    /\ MSpend("disturb")
    /\ module' = NoModule
    /\ refs' = NoRefs
    /\ mqueue' = mup
    /\ UNCHANGED <<obj, queue, others, mup, mpc, mlocal>>

\* Kubernetes deletes the objects whose owner is gone.
GarbageCollect(v) ==
    /\ ~module.exists
    /\ obj[v].exists /\ ~obj[v].deleting
    /\ obj' = [obj EXCEPT ![v] = Deleted(@)]
    /\ Notify({v})
    /\ UNCHANGED <<refs, others, mvars>>

-----------------------------------------------------------------------------
ModuleStep ==
    \/ GetVersion \/ WriteRefs \/ CreateOwned \/ UpdateOwned \/ Latest \/ Trim
    \/ ModuleResetForceSync \/ ModuleStatus \/ ListOwned \/ DeleteOwned

ModuleNext ==
    \/ ModuleReconcile \/ ModuleStep \/ ModuleCallFails \/ ModuleCrash \/ ModuleRestart
    \/ WriteModule \/ ForceModule \/ RemoveModule
    \/ \E v \in Version : GarbageCollect(v)

\* The two controllers side by side.
Composed ==
    \/ ModuleNext
    \/ /\ \/ \E v \in Version : Controller(v)
          \/ Crash \/ Restart
       /\ UNCHANGED mvars

ModuleSpec == ModuleInit /\ [][Composed]_allVars

-----------------------------------------------------------------------------
\* Properties

\* Once the controllers rest, the Versions are the ones the Module lists and
\* none of them is left terminating, whatever was edited, failed or crashed
\* on the way.
VersionsConverge ==
    Settled /\ module.exists =>
        \A v \in Version : /\ obj[v].exists <=> v \in Listed(module)
                           /\ ~obj[v].deleting

\* Once they rest, every listed Version can be served: it is synced and its
\* archive is stored under its name.
SettledIsServed ==
    Settled /\ module.exists =>
        \A v \in Listed(module) : /\ obj[v].synced
                                  /\ obj[v].fileName # Nil
                                  /\ storage[obj[v].fileName] = obj[v].checksum

\* "reconcileDeletion removes the stored artifact and finalizer when a Version
\* is being deleted": once the controllers rest, with no failure on the way,
\* no stored file is left behind by a Version that was deleted.
DeletionCleansUp == Settled => Orphans = {}

\* Once they rest, the history limit is enforced and the newest version of the
\* list is in it.
HistoryBounded ==
    Settled /\ module.exists /\ HistoryLimit > 0 =>
        /\ Len(module.versions) <= HistoryLimit
        /\ module.latest \in Listed(module)

-----------------------------------------------------------------------------
\* What holds of both controllers whatever the operator does

ModuleRecord == [exists : BOOLEAN, versions : Seq(Version), forceSync : BOOLEAN,
                 synced : BOOLEAN, latest : Version \cup {Nil}]

ModuleLocal == [module : ModuleRecord, todo : Seq(Version), refs : [Version -> FileOrNil],
                version : Object, latest : Version \cup {Nil}, doomed : SUBSET Version]

\* The labels inside the loop, and the ones after it.
Loop  == {"get", "refs", "create", "update"}
After == {"latest", "trim", "reset", "status", "list", "delete"}

ModuleTyped ==
    /\ module \in ModuleRecord
    /\ mup \in BOOLEAN /\ mqueue \in BOOLEAN
    /\ mpc \in {"idle"} \cup Loop \cup After
    /\ mlocal \in ModuleLocal
    /\ mbudget \in [ModuleEvent -> Nat]

\* A worker holds the object it read, and an idle one nothing.
Reading ==
    \A v \in Version : IF pc[v] = "idle" THEN local[v] = Idle ELSE local[v].version.exists

\* Every checksum and every archive is the one the upstream publishes.
FromUpstream ==
    \A v \in Version : /\ obj[v].checksum \in {Nil, upstream[v]}
                       /\ local[v].version.checksum \in {Nil, upstream[v]}
                       /\ pc[v] \in Fetched => local[v].archive = upstream[v]

\* The loop has versions left, a stopped controller has no work, a Version is
\* created in a reconcile that another one will follow, one that exists is
\* updated, only a list above the limit is trimmed, and Versions are chosen for
\* deletion last.
ModuleWorker ==
    /\ mpc \in Loop <=> mlocal.todo # <<>>
    /\ ~mup => mpc = "idle" /\ ~mqueue
    /\ mpc = "create" => mqueue
    /\ mpc = "update" => mlocal.version.exists
    /\ mpc = "trim" => HistoryLimit < Len(mlocal.module.versions)
    /\ mpc # "delete" => mlocal.doomed = {}

ModuleBase == TypeOK /\ ModuleTyped /\ Reading /\ FromUpstream /\ ModuleWorker

-----------------------------------------------------------------------------
\* The inductive invariant behind HistoryBounded

WithinHistory(versions) == HistoryLimit > 0 => Len(versions) <= HistoryLimit

\* A reconcile that no event has overtaken works on the list of the Module; past
\* the trimming the list is short enough and the latest version is in it.
HistoryInv ==
    mup /\ ~mqueue /\ module.exists =>
        /\ mpc # "idle" => mlocal.module.versions = module.versions
        /\ mpc \in {"reset", "status"} =>
              WithinHistory(module.versions) /\ mlocal.latest \in Listed(module)
        /\ mpc \in {"idle", "list", "delete"} =>
              WithinHistory(module.versions) /\ module.latest \in Listed(module)

-----------------------------------------------------------------------------
\* The inductive invariant behind VersionsConverge

Deletion == {"deleteArtifact", "removeFinalizer"}

\* A deletion waits for its finalizer, and somebody is about to finish it.
DeletionsPending ==
    \A v \in Version :
        /\ obj[v].deleting => /\ obj[v].exists /\ obj[v].finalizer
                              /\ up /\ v \notin queue => pc[v] \in Deletion
        /\ pc[v] \in Deletion => local[v].version.deleting

Todo == {mlocal.todo[i] : i \in DOMAIN mlocal.todo}

\* A reconcile works on the list of the Module, nobody deletes what is listed,
\* and a reconcile that no event has overtaken leaves the listed Versions and,
\* after its removals, no others.
ListFollowed ==
    module.exists =>
        /\ mpc # "idle" => mlocal.module.versions = module.versions /\ Todo \subseteq Listed(module)
        /\ \A v \in Listed(module) : /\ ~obj[v].deleting
                                     /\ pc[v] \notin Deletion
                                     /\ v \notin mlocal.doomed
        /\ mup /\ ~mqueue =>
              /\ \A v \in Listed(module) \ Todo : obj[v].exists
              /\ mpc \in {"idle", "delete"} =>
                    \A v \in Version : obj[v].exists /\ ~obj[v].deleting
                                         => v \in Listed(module) \cup mlocal.doomed

ConvergeInv == DeletionsPending /\ ListFollowed

-----------------------------------------------------------------------------
\* The inductive invariant behind SettledIsServed

\* Before its first edit there is no Module and nothing of it.
Pristine ==
    /\ mbudget["edit"] <= ModuleBudget["edit"]
    /\ mbudget["edit"] = ModuleBudget["edit"] =>
          ~module.exists /\ mpc = "idle" /\ \A v \in Version : ~obj[v].exists

\* The names a Version goes by, in the memories of the controllers too.
AllNames(v) == {obj[v].fileName, refs[v], local[v].fileName, local[v].version.fileName,
                mlocal.refs[v]} \ {Nil}

\* Every Version is created with a name of its own.
OwnNames ==
    /\ \A v, w \in Version : v # w => AllNames(v) \cap AllNames(w) = {}
    /\ \A v \in Version : /\ obj[v].exists => obj[v].fileName # Nil
                          /\ local[v].version.exists => local[v].version.fileName # Nil
                          /\ pc[v] \in Naming \cup Recorded => local[v].fileName # Nil
    /\ mpc = "create" => mlocal.refs[Head(mlocal.todo)] # Nil

\* The Module writes no Version that is to be rejected or fetched again.
PlainSpec(o) == o.config # "dual" /\ ~o.forceSync

\* The steps a worker takes without scans.
PlainSteps == {"idle", "addFinalizer", "prepare", "fastPath", "download", "fetch", "verify",
               "firstPut", "put", "updateSpec", "writeStatus"} \cup Deletion

Plain == \A v \in Version : /\ PlainSpec(obj[v]) /\ PlainSpec(local[v].version)
                            /\ local[v].config # "dual"
                            /\ pc[v] \in PlainSteps

\* A listed Version that is synced is stored; its worker sees the status as it
\* is, does not overwrite the file of a synced Version, and has uploaded before
\* it records; a listed Version that nobody will look at is synced.
ServedOrQueued(v) ==
    /\ obj[v].synced => /\ obj[v].checksum = upstream[v]
                        /\ storage[obj[v].fileName] = upstream[v]
    /\ pc[v] # "idle" => /\ obj[v].exists
                        /\ local[v].version.synced = obj[v].synced
                        /\ local[v].version.checksum = obj[v].checksum
    /\ pc[v] = "verify" => obj[v].checksum # Nil
    /\ pc[v] \in {"firstPut", "put"} => ~obj[v].synced \/ local[v].fileName # obj[v].fileName
    /\ pc[v] \in {"updateSpec", "writeStatus"} => storage[local[v].fileName] = upstream[v]
    /\ pc[v] = "writeStatus" => local[v].fileName = obj[v].fileName
    /\ up /\ v \notin queue /\ pc[v] = "idle" /\ obj[v].exists => obj[v].synced

ServedInv ==
    /\ Pristine /\ OwnNames /\ Plain
    /\ module.exists => \A v \in Listed(module) : ServedOrQueued(v)

=============================================================================
