----------------------- MODULE VersionReconcilerProofs -----------------------
(***************************************************************************)
(* Proofs about the Version controller, for every set of Versions, every   *)
(* list of policies and every number of crashes, faults and edits: the     *)
(* life of an artifact and, from "What the steps do to the world" on, what *)
(* the controller promises its users.  A synced Version can be served, a   *)
(* blocked one shows why, interruptions leave a bounded number of files    *)
(* behind, and the two semaphores hold.                                    *)
(***************************************************************************)
EXTENDS VersionReconciler, FiniteSetTheorems, TLAPS

USE VersionConstants DEF FileOrNil, ChecksumOrNil, Contents

-----------------------------------------------------------------------------
\* Types

\* The object that does not exist is well typed.
LEMMA AbsentType == Absent \in Object
  BY DEF Absent, Object, Scans

\* A worker that handles nothing is well typed.
LEMMA IdleType == Idle \in Worker
  BY AbsentType DEF Idle, Worker, Scans

\* The controller starts well typed.
LEMMA InitType == Init => Typed
  BY AbsentType, IdleType DEF Init, Typed, Labels, CallPoints

\* A reconcile that returns leaves its worker and its queue well typed.
LEMMA ReturnType ==
  ASSUME Typed, NEW v \in Version, NEW b \in BOOLEAN, Return(v, b)
  PROVE  /\ pc' \in [Version -> Labels]
         /\ local' \in [Version -> Worker]
         /\ queue' \subseteq Version
  BY IdleType DEF Typed, Return, Labels

\* So does one that asks to be called again, which leaves the timers alone.
LEMMA RequeueType ==
  ASSUME Typed, NEW v \in Version, Requeue(v)
  PROVE  /\ pc' \in [Version -> Labels]
         /\ local' \in [Version -> Worker]
         /\ queue' \subseteq Version
         /\ timer' = timer
  BY ReturnType DEF Requeue

\* So does one that ends with the wake-up of an exemption.
LEMMA FinishType ==
  ASSUME Typed, NEW v \in Version, NEW r \in Decisions \cup {Nil},
         NEW b \in BOOLEAN, Finish(v, r, b)
  PROVE  /\ pc' \in [Version -> Labels]
         /\ local' \in [Version -> Worker]
         /\ queue' \subseteq Version
         /\ timer' \in [Version -> {d.nextExpiry : d \in Decisions} \cup {Never}]
  BY ReturnType DEF Finish, Typed

\* An environment event keeps the budgets natural.
LEMMA SpendType ==
  ASSUME Typed, NEW k \in EventKind, Spend(k)
  PROVE  budget' \in [EventKind -> Nat]
  BY DEF Typed, Spend

\* What a field of an object or of a worker may be set to.
LEMMA ObjectUpdate ==
  ASSUME NEW o \in Object
  PROVE  /\ \A b \in BOOLEAN : /\ [o EXCEPT !.finalizer = b] \in Object
                               /\ [o EXCEPT !.deleting = b] \in Object
                               /\ [o EXCEPT !.forceSync = b] \in Object
         /\ \A b \in BOOLEAN, m \in {"", "terminal", "error", "violation", "ok"} :
               [o EXCEPT !.synced = b, !.message = m] \in Object
         /\ \A m \in {"", "terminal", "error", "violation", "ok"} : [o EXCEPT !.message = m] \in Object
         /\ \A f \in FileOrNil, c \in {"given", "dual", "module"} :
               [o EXCEPT !.fileName = f, !.config = c] \in Object
         /\ \A c \in Checksum : [o EXCEPT !.synced = TRUE, !.checksum = c, !.message = "ok"] \in Object
         /\ \A b, s \in Scans : [o EXCEPT !.binaryScan = b, !.sourceScan = s] \in Object
  BY DEF Object

\* The same for the fields of a worker.
LEMMA WorkerUpdate ==
  ASSUME NEW l \in Worker
  PROVE  /\ \A o \in Object : [l EXCEPT !.version = o] \in Worker
         /\ \A f \in FileOrNil, c \in {"given", "dual", "module"} :
               [l EXCEPT !.fileName = f, !.config = c] \in Worker
         /\ \A f \in FileOrNil, a \in Checksum :
               [l EXCEPT !.archive = a, !.fileName = f] \in Worker
         /\ \A r \in Decisions : [l EXCEPT !.resolved = r] \in Worker
         /\ \A s \in Scans : /\ [l EXCEPT !.binaryScan = s] \in Worker
                             /\ [l EXCEPT !.sourceScan = s] \in Worker
  BY DEF Worker

\* What the fields of a worker are.
LEMMA WorkerFields ==
  ASSUME NEW l \in Worker
  PROVE  /\ l.version \in Object /\ l.fileName \in FileOrNil
         /\ l.config \in {"given", "dual", "module"}
         /\ l.archive \in ChecksumOrNil /\ l.resolved \in Decisions \cup {Nil}
         /\ l.binaryScan \in Scans /\ l.sourceScan \in Scans
  BY DEF Worker

\* What the fields of an object are.
LEMMA ObjectFields ==
  ASSUME NEW o \in Object
  PROVE  /\ o.exists \in BOOLEAN /\ o.finalizer \in BOOLEAN /\ o.deleting \in BOOLEAN
         /\ o.forceSync \in BOOLEAN /\ o.synced \in BOOLEAN
         /\ o.fileName \in FileOrNil /\ o.config \in {"given", "dual", "module"}
         /\ o.checksum \in ChecksumOrNil
         /\ o.binaryScan \in Scans /\ o.sourceScan \in Scans
  BY DEF Object

\* The scans of a worker fit an object.
LEMMA WithScansType ==
  ASSUME NEW o \in Object, NEW l \in Worker
  PROVE  WithScans(o, l) \in Object
  BY WorkerFields, ObjectFields, ObjectUpdate DEF WithScans

\* resolveScanPolicy returns a decision, whether its List fails or not.
LEMMA ResolvedType ==
  ASSUME Typed, NEW v \in Version, NEW b \in BOOLEAN
  PROVE  Resolved(v, b) \in Decisions
  BY DEF Typed, Resolved, Decisions

\* Every step of a worker keeps the types.  The scans read the findings of the
\* archive in hand, which is why Archived is needed.
LEMMA WorkerType ==
  ASSUME Typed, Archived, NEW v \in Version,
         WorkerStep(v) \/ AcquireDownload(v) \/ AcquireScan(v)
  PROVE  Typed'
  <1> USE DEF Labels, CallPoints, api, world
  <1>1. CASE AddFinalizer(v)
    BY <1>1, RequeueType, ObjectUpdate DEF AddFinalizer, Typed, Conflict
  <1>2. CASE DeleteArtifact(v)
    BY <1>2 DEF DeleteArtifact, Typed, Goto
  <1>3. CASE RemoveFinalizer(v)
    BY <1>3, ReturnType, AbsentType DEF RemoveFinalizer, Typed, Conflict
  <1>4. CASE WriteTerminal(v)
    BY <1>4, ReturnType, ObjectUpdate DEF WriteTerminal, Typed, Conflict
  <1>5. CASE Prepare(v)
    <2> DEFINE o == local[v].version
               managed == ~IsProvider(v) /\ refs[v] # Nil
    <2>1. PICK f : /\ f \in CASE managed -> {refs[v]}
                              [] ~managed /\ (IsProvider(v) \/ o.fileName # Nil) -> {o.fileName}
                              [] OTHER -> Generated
                   /\ local' = [local EXCEPT ![v].fileName = f,
                                             ![v].config = IF managed THEN "module" ELSE o.config]
      BY <1>5 DEF Prepare
    <2>2. o \in Object /\ local[v] \in Worker
      BY WorkerFields DEF Typed
    <2>3. f \in FileOrNil
      BY <2>1, <2>2, ObjectFields DEF Typed, Generated, Unused
    <2>4. local' \in [Version -> Worker]
      BY <2>1, <2>2, <2>3, WorkerUpdate, ObjectFields DEF Typed
    <2>5. QED
      BY <1>5, <2>4 DEF Prepare, Typed, Goto
  <1>6. CASE FastPath(v)
    BY <1>6, ReturnType DEF FastPath, Typed, Goto
  <1>7. CASE Fetch(v)
    <2>1. sem' \in [download : Version \cup {Nil}, scan : Version \cup {Nil}]
      BY <1>7 DEF Fetch, ReleaseDownload, Typed
    <2>2. CASE Moved(v)
      <3>1. Requeue(v)
        BY <1>7, <2>2 DEF Fetch
      <3>2. [obj[v] EXCEPT !.synced = FALSE, !.message = "error"] \in Object
        BY ObjectUpdate DEF Typed
      <3>3. obj' \in [Version -> Object]
        BY <1>7, <2>2, <3>2, ZenonT(60) DEF Fetch, Conflict, Typed
      <3>4. QED
        BY <1>7, <2>1, <3>1, <3>3, RequeueType DEF Fetch, Typed
    <2>3. CASE ~Moved(v)
      <3>1. PICK f \in IF local[v].fileName # Nil THEN {local[v].fileName} ELSE Generated :
               local' = [local EXCEPT ![v].archive = upstream[v], ![v].fileName = f]
        BY <1>7, <2>3 DEF Fetch
      <3>2. f \in FileOrNil
        BY <3>1, WorkerFields DEF Typed, Generated, Unused
      <3>3. local' \in [Version -> Worker]
        BY <3>1, <3>2, WorkerUpdate DEF Typed
      <3>4. QED
        BY <1>7, <2>1, <2>3, <3>3 DEF Fetch, Typed, Goto
    <2>4. QED
      BY <2>2, <2>3
  <1>8. CASE VerifyStored(v)
    BY <1>8 DEF VerifyStored, Typed, Goto
  <1>9. CASE FirstPut(v) \/ Put(v)
    BY <1>9, WorkerFields DEF FirstPut, Put, Upload, Typed, Goto
  <1>10. CASE UpdateSpec(v)
    <2>1. CASE obj[v].exists
      <3>1. obj' \in [Version -> Object]
        <4>1. [obj[v] EXCEPT !.fileName = local[v].fileName, !.config = local[v].config] \in Object
          BY WorkerFields, ObjectUpdate DEF Typed
        <4>2. QED
          BY <1>10, <2>1, <4>1, ZenonT(60) DEF UpdateSpec, Typed
      <3>2. queue' \subseteq Version
        BY <1>10, <2>1 DEF UpdateSpec, Typed
      <3>3. pc' \in [Version -> Labels]
        BY <1>10, <2>1 DEF UpdateSpec, Typed, Goto
      <3>4. QED
        BY <1>10, <2>1, <3>1, <3>2, <3>3 DEF UpdateSpec, Typed
    <2>2. CASE ~obj[v].exists
      BY <1>10, <2>2, RequeueType DEF UpdateSpec, Typed
    <2>3. QED
      BY <2>1, <2>2
  <1>11. CASE ResolvePolicy(v)
    <2>1. PICK b \in BOOLEAN : /\ IF b THEN Spend("listFail") ELSE UNCHANGED budget
                               /\ local' = [local EXCEPT ![v].resolved = Resolved(v, b)]
      BY <1>11 DEF ResolvePolicy
    <2>2. local' \in [Version -> Worker]
      BY <2>1, ResolvedType, WorkerUpdate DEF Typed
    <2>3. budget' \in [EventKind -> Nat]
      BY <2>1, SpendType DEF Typed, EventKind
    <2>4. pc' \in [Version -> Labels]
      BY <1>11 DEF ResolvePolicy, FirstScan, Goto, Typed
    <2>5. QED
      BY <1>11, <2>2, <2>3, <2>4 DEF ResolvePolicy, Typed
  <1>12. CASE BinaryScan(v)
    <2>1. BinaryFindings[local[v].archive] \in Scans
      BY <1>12 DEF BinaryScan, Archived, Fetched, Scans
    <2>2. local' \in [Version -> Worker]
      <3>1. [local[v] EXCEPT !.binaryScan = BinaryFindings[local[v].archive]] \in Worker
        BY <2>1, WorkerUpdate DEF Typed
      <3>2. [local[v] EXCEPT !.binaryScan = <<>>] \in Worker
        BY WorkerUpdate DEF Typed, Scans
      <3>3. QED
        BY <1>12, <3>1, <3>2, ZenonT(60) DEF BinaryScan, Typed
    <2>3. budget' \in [EventKind -> Nat]
      BY <1>12, SpendType DEF BinaryScan, Typed, EventKind
    <2>4. pc' \in [Version -> Labels]
      BY <1>12, ZenonT(60) DEF BinaryScan, Goto, Typed
    <2>5. QED
      BY <1>12, <2>2, <2>3, <2>4 DEF BinaryScan, Typed
  <1>13. CASE SourceDedup(v)
    BY <1>13, WorkerUpdate, WorkerFields, ObjectFields DEF SourceDedup, Typed, Goto
  <1>14. CASE SourceScan(v)
    <2>1. SourceFindings[local[v].archive] \in Scans
      BY <1>14 DEF SourceScan, Archived, Fetched, Scans
    <2>2. local' \in [Version -> Worker]
      <3>1. [local[v] EXCEPT !.sourceScan = SourceFindings[local[v].archive]] \in Worker
        BY <2>1, WorkerUpdate DEF Typed
      <3>2. [local[v] EXCEPT !.sourceScan = <<>>] \in Worker
        BY WorkerUpdate DEF Typed, Scans
      <3>3. QED
        BY <1>14, <3>1, <3>2, ZenonT(60) DEF SourceScan, Typed
    <2>3. budget' \in [EventKind -> Nat]
      BY <1>14, SpendType DEF SourceScan, Typed, EventKind
    <2>4. pc' \in [Version -> Labels]
      BY <1>14, ZenonT(60) DEF SourceScan, Goto, Typed
    <2>5. QED
      BY <1>14, <2>2, <2>3, <2>4 DEF SourceScan, Typed
  <1>15. CASE PersistScanViolation(v)
    BY <1>15, RequeueType, WithScansType, ObjectUpdate DEF PersistScanViolation, Typed
  <1>16. CASE WriteStatus(v)
    <2>1. obj' \in [Version -> Object]
      <3>1. local[v].archive \in Checksum /\ WithScans(obj[v], local[v]) \in Object
        BY <1>16, WithScansType DEF WriteStatus, Archived, Fetched, Typed
      <3>2. [WithScans(obj[v], local[v]) EXCEPT
                !.synced = TRUE, !.checksum = local[v].archive, !.message = "ok"] \in Object
        BY <3>1, ObjectUpdate
      <3>3. QED
        BY <1>16, <3>2 DEF WriteStatus, Typed
    <2>2. local[v].resolved \in Decisions \cup {Nil}
      BY WorkerFields DEF Typed
    <2>3. CASE Requeue(v)
      BY <1>16, <2>1, <2>3, RequeueType DEF WriteStatus, Typed
    <2>4. CASE Finish(v, local[v].resolved, FALSE)
      BY <1>16, <2>1, <2>2, <2>4, FinishType DEF WriteStatus, Typed
    <2>5. CASE Goto(v, "resetForceSync") /\ UNCHANGED <<local, queue, timer>>
      BY <1>16, <2>1, <2>5 DEF WriteStatus, Typed, Goto
    <2>6. QED
      BY <1>16, <2>3, <2>4, <2>5 DEF WriteStatus
  <1>17. CASE ResetForceSync(v)
    <2>1. obj' \in [Version -> Object]
      <3>1. [obj[v] EXCEPT !.forceSync = FALSE] \in Object
        BY ObjectUpdate DEF Typed
      <3>2. QED
        BY <1>17, <3>1, ZenonT(60) DEF ResetForceSync, Typed
    <2>2. local[v].resolved \in Decisions \cup {Nil}
      BY WorkerFields DEF Typed
    <2>3. CASE Requeue(v)
      BY <1>17, <2>1, <2>3, RequeueType DEF ResetForceSync, Typed
    <2>4. CASE Finish(v, local[v].resolved, SpecChanged(obj[v], obj'[v]))
      BY <1>17, <2>1, <2>2, <2>4, FinishType DEF ResetForceSync, SpecChanged, Typed
    <2>5. QED
      BY <1>17, <2>3, <2>4 DEF ResetForceSync
  <1>18. CASE ApplyStored(v)
    <2>1. obj' \in [Version -> Object]
      <3>1. [obj[v] EXCEPT !.synced = FALSE, !.message = "violation"] \in Object
        BY ObjectUpdate DEF Typed
      <3>2. [obj[v] EXCEPT !.synced = TRUE, !.message = "ok"] \in Object
        BY ObjectUpdate DEF Typed
      <3>3. obj' = obj \/ \E o \in Object : obj' = [obj EXCEPT ![v] = o]
        BY <1>18, <3>1, <3>2 DEF ApplyStored, StoredBlocks, Blocking, Typed
      <3>4. QED
        BY <3>3 DEF Typed
    <2>2. local[v].resolved \in Decisions \cup {Nil}
      BY WorkerFields DEF Typed
    <2>3. CASE Requeue(v)
      BY <1>18, <2>1, <2>3, RequeueType DEF ApplyStored, Typed
    <2>4. CASE Finish(v, local[v].resolved, FALSE)
      BY <1>18, <2>1, <2>2, <2>4, FinishType DEF ApplyStored, Typed
    <2>5. QED
      BY <1>18, <2>3, <2>4 DEF ApplyStored
  <1>19. CASE AcquireDownload(v)
    BY <1>19 DEF AcquireDownload, Typed, Goto
  <1>20. CASE AcquireScan(v)
    BY <1>20 DEF AcquireScan, Typed, Goto
  <1>21. QED
    BY <1>1, <1>2, <1>3, <1>4, <1>5, <1>6, <1>7, <1>8, <1>9, <1>10, <1>11, <1>12, <1>13,
       <1>14, <1>15, <1>16, <1>17, <1>18, <1>19, <1>20 DEF WorkerStep

\* Where the first branch of Reconcile may lead, and what it has found out.
LEMMA BranchFacts ==
  ASSUME NEW o \in Object, ~o.exists => o = Absent
  PROVE  /\ Branch(o) \in {"idle", "addFinalizer", "deleteArtifact", "removeFinalizer",
                           "terminal", "prepare"}
         /\ Branch(o) # "idle" => o.exists
         /\ Branch(o) \notin {"idle", "addFinalizer"} => o.finalizer
         /\ Branch(o) = "removeFinalizer" => o.fileName = Nil
  BY ObjectFields DEF Branch, Absent

\* A worker that takes a key keeps the types.
LEMMA ReconcileType ==
  ASSUME TypeOK, NEW v \in Version, Reconcile(v)
  PROVE  Typed'
  <1> USE DEF TypeOK, Typed, Gone
  <1>1. pc' \in [Version -> Labels]
    BY BranchFacts DEF Reconcile, Goto, Labels, CallPoints
  <1>2. local' \in [Version -> Worker]
    BY WorkerUpdate DEF Reconcile
  <1>3. QED
    BY <1>1, <1>2 DEF Reconcile, api, world

\* An upload cut short leaves contents behind.
LEMMA CutShortType ==
  ASSUME Typed, NEW S, CutShort(S)
  PROVE  storage' \in [File -> Contents]
  BY DEF Typed, CutShort

\* A failed call keeps the types.
LEMMA FailureType ==
  ASSUME Typed, NEW v \in Version, Failure(v)
  PROVE  Typed'
  <1> USE DEF api
  <1>1. CASE FastPathFails(v)
    BY <1>1, SpendType DEF FastPathFails, Goto, Typed, Labels, EventKind
  <1>2. CASE FetchFails(v)
    <2>1. obj' \in [Version -> Object]
      BY <1>2, ObjectUpdate DEF FetchFails, Conflict, Typed
    <2>2. sem' \in [download : Version \cup {Nil}, scan : Version \cup {Nil}]
      BY <1>2 DEF FetchFails, ReleaseDownload, Typed
    <2>3. QED
      BY <1>2, <2>1, <2>2, SpendType, RequeueType DEF FetchFails, Typed, EventKind
  <1>3. CASE CallFails(v)
    BY <1>3, SpendType, CutShortType, RequeueType DEF CallFails, Typed, EventKind
  <1>4. QED
    BY <1>1, <1>2, <1>3 DEF Failure

\* A new Version is an object.
LEMMA NewVersionType ==
  ASSUME NEW f \in FileOrNil, NEW c \in {"given", "dual"}
  PROVE  NewVersion(f, c) \in Object /\ NewVersion(f, c).exists
  BY AbsentType DEF NewVersion, Absent, Object

\* The environment and the clock.
LEMMA EnvironmentType ==
  ASSUME Typed,
         \/ \E v \in Version : Operator(v) \/ TimerFires(v)
         \/ \E f \in File : LoseFile(f)
         \/ EditPolicies \/ Tick \/ Crash \/ Restart
  PROVE  Typed'
  <1> USE SpendType DEF api, world, EventKind, Notify
  <1>1. ASSUME NEW v \in Version, CreateVersion(v) PROVE Typed'
    BY <1>1, NewVersionType DEF CreateVersion, Typed, Generated, Unused
  <1>2. ASSUME NEW v \in Version, DeleteVersion(v) PROVE Typed'
    BY <1>2, ObjectUpdate, AbsentType DEF DeleteVersion, Typed
  <1>3. ASSUME NEW v \in Version, SetForceSync(v) PROVE Typed'
    BY <1>3, ObjectUpdate DEF SetForceSync, Typed
  <1>4. ASSUME NEW v \in Version, MoveUpstream(v) PROVE Typed'
    BY <1>4 DEF MoveUpstream, Typed
  <1>5. ASSUME NEW v \in Version, TimerFires(v) PROVE Typed'
    BY <1>5 DEF TimerFires, Typed
  <1>6. ASSUME NEW f \in File, LoseFile(f) PROVE Typed'
    BY <1>6 DEF LoseFile, Typed
  <1>7. CASE EditPolicies
    BY <1>7 DEF EditPolicies, AllVersions, Typed
  <1>8. CASE Tick
    BY <1>8 DEF Tick, Typed
  <1>9. CASE Crash
    BY <1>9, IdleType, CutShortType DEF Crash, Typed, Labels
  <1>10. CASE Restart
    BY <1>10 DEF Restart, AllVersions, Typed
  <1>11. QED
    BY <1>1, <1>2, <1>3, <1>4, <1>5, <1>6, <1>7, <1>8, <1>9, <1>10 DEF Operator

\* Every step keeps the types.
LEMMA NextType ==
  ASSUME TypeOK, Archived, Next
  PROVE  Typed'
  BY WorkerType, ReconcileType, FailureType, EnvironmentType DEF Next, Controller, TypeOK

-----------------------------------------------------------------------------
\* What the steps do to an object, to its worker and to the storage

\* The fields the invariant is about.
Same(n, o) == /\ n.exists = o.exists
              /\ n.finalizer = o.finalizer
              /\ n.fileName = o.fileName
              /\ n.checksum = o.checksum

\* The writes that leave those fields alone.
LEMMA ObjectKeeps ==
  ASSUME NEW o \in Object
  PROVE  /\ \A b : /\ Same([o EXCEPT !.deleting = b], o)
                   /\ Same([o EXCEPT !.forceSync = b], o)
         /\ \A m : Same([o EXCEPT !.message = m], o)
         /\ \A b, m : Same([o EXCEPT !.synced = b, !.message = m], o)
         /\ \A b, s : Same([o EXCEPT !.binaryScan = b, !.sourceScan = s], o)
  BY DEF Object, Same

\* What the other writes do to them.
LEMMA ObjectSets ==
  ASSUME NEW o \in Object
  PROVE  /\ LET n == [o EXCEPT !.finalizer = TRUE] IN
              /\ n.exists = o.exists /\ n.finalizer
              /\ n.fileName = o.fileName /\ n.checksum = o.checksum
         /\ \A f, c : LET n == [o EXCEPT !.fileName = f, !.config = c] IN
              /\ n.exists = o.exists /\ n.finalizer = o.finalizer
              /\ n.fileName = f /\ n.checksum = o.checksum
         /\ \A c : LET n == [o EXCEPT !.synced = TRUE, !.checksum = c, !.message = "ok"] IN
              /\ n.exists = o.exists /\ n.finalizer = o.finalizer
              /\ n.fileName = o.fileName /\ n.checksum = c
  BY DEF Object

\* What the rest of a worker's memory is when one field is set.
LEMMA WorkerKeeps ==
  ASSUME NEW l \in Worker
  PROVE  \A x : /\ [l EXCEPT !.resolved = x].version = l.version
                /\ [l EXCEPT !.resolved = x].archive = l.archive
                /\ [l EXCEPT !.resolved = x].fileName = l.fileName
                /\ [l EXCEPT !.binaryScan = x].version = l.version
                /\ [l EXCEPT !.binaryScan = x].archive = l.archive
                /\ [l EXCEPT !.binaryScan = x].fileName = l.fileName
                /\ [l EXCEPT !.sourceScan = x].version = l.version
                /\ [l EXCEPT !.sourceScan = x].archive = l.archive
                /\ [l EXCEPT !.sourceScan = x].fileName = l.fileName
  BY DEF Worker

\* Only v and its worker change.
OnlyAt(v) ==
    /\ refs' = refs
    /\ \A w \in Version \ {v} : obj'[w] = obj[w] /\ local'[w] = local[w] /\ pc'[w] = pc[w]

\* The worker of v returns.
Returns(v) == pc'[v] = "idle" /\ local'[v] = Idle

\* The worker of v goes on with what it has.
Proceeds(v) ==
    /\ pc[v] \in Working \ {"resetForceSync"}
    /\ pc'[v] \in Working \ {"prepare", "deleteArtifact", "removeFinalizer"}
    /\ pc'[v] \in Fetched => pc[v] \in Fetched
    /\ local'[v].version = local[v].version
    /\ local'[v].archive = local[v].archive
    /\ local'[v].fileName = local[v].fileName

Quiet(v) ==
    \/ WriteTerminal(v) \/ FastPath(v) \/ (Fetch(v) /\ Moved(v)) \/ VerifyStored(v)
    \/ FirstPut(v) \/ Put(v) \/ ResolvePolicy(v) \/ BinaryScan(v) \/ SourceDedup(v)
    \/ SourceScan(v) \/ PersistScanViolation(v) \/ ResetForceSync(v) \/ ApplyStored(v)
    \/ AcquireDownload(v) \/ AcquireScan(v) \/ Failure(v)

\* A quiet step touches one key, keeps its object as far as the invariant goes
\* and either returns or goes on.
LEMMA QuietStep ==
  ASSUME TypeOK, NEW v \in Version, Quiet(v)
  PROVE  OnlyAt(v) /\ Same(obj'[v], obj[v]) /\ (Returns(v) \/ Proceeds(v))
  <1> USE DEF TypeOK, Typed, OnlyAt, Returns, Return, Requeue, Goto, api
  <1> USE DEF Labels, CallPoints, Working, Fetched
  <1>0. Same(obj[v], obj[v])
    BY DEF Same
  <1>k. /\ \A b : Same([obj[v] EXCEPT !.forceSync = b], obj[v])
        /\ Same([obj[v] EXCEPT !.synced = FALSE, !.message = "error"], obj[v])
        /\ Same([obj[v] EXCEPT !.synced = FALSE, !.message = "violation"], obj[v])
        /\ Same([obj[v] EXCEPT !.synced = TRUE, !.message = "ok"], obj[v])
    BY ObjectKeeps
  <1>l. \A x : /\ [local[v] EXCEPT !.binaryScan = x].version = local[v].version
               /\ [local[v] EXCEPT !.binaryScan = x].archive = local[v].archive
               /\ [local[v] EXCEPT !.binaryScan = x].fileName = local[v].fileName
               /\ [local[v] EXCEPT !.sourceScan = x].version = local[v].version
               /\ [local[v] EXCEPT !.sourceScan = x].archive = local[v].archive
               /\ [local[v] EXCEPT !.sourceScan = x].fileName = local[v].fileName
    BY WorkerKeeps
  <1>1. CASE WriteTerminal(v)
    BY <1>1, <1>0, ObjectKeeps DEF WriteTerminal, Conflict
  <1>2. CASE FastPath(v)
    BY <1>2, <1>0 DEF FastPath, Proceeds
  <1>3. CASE Fetch(v) /\ Moved(v)
    <2>1. Returns(v) /\ OnlyAt(v)
      BY <1>3 DEF Fetch, Conflict
    <2>2. Same(obj'[v], obj[v])
      <3>1. \/ obj'[v] = obj[v]
            \/ obj'[v] = [obj[v] EXCEPT !.synced = FALSE, !.message = "error"]
        BY <1>3 DEF Fetch, Conflict
      <3>2. QED
        BY <1>k, <3>1 DEF Same
    <2>3. QED
      BY <2>1, <2>2
  <1>4. CASE VerifyStored(v) \/ FirstPut(v) \/ Put(v) \/ AcquireDownload(v) \/ AcquireScan(v)
    BY <1>4, <1>0 DEF VerifyStored, FirstPut, Put, AcquireDownload, AcquireScan, Proceeds
  <1>5. CASE ResolvePolicy(v)
    <2>1. OnlyAt(v) /\ obj' = obj
      BY <1>5 DEF ResolvePolicy
    <2>2. /\ local'[v].version = local[v].version
          /\ local'[v].archive = local[v].archive
          /\ local'[v].fileName = local[v].fileName
      BY <1>5, WorkerKeeps DEF ResolvePolicy
    <2>3. /\ pc[v] \in Working \ {"resetForceSync"}
          /\ pc'[v] \in Working \ {"prepare", "deleteArtifact", "removeFinalizer"}
          /\ pc'[v] \in Fetched => pc[v] \in Fetched
      BY <1>5 DEF ResolvePolicy, FirstScan
    <2>4. QED
      BY <1>0, <2>1, <2>2, <2>3 DEF Proceeds
  <1>6. CASE BinaryScan(v)
    <2>1. OnlyAt(v) /\ obj' = obj
      BY <1>6 DEF BinaryScan
    <2>2. /\ local'[v].version = local[v].version
          /\ local'[v].archive = local[v].archive
          /\ local'[v].fileName = local[v].fileName
      <3>1. \/ local'[v] = local[v]
            \/ local'[v] = [local[v] EXCEPT !.binaryScan = BinaryFindings[local[v].archive]]
            \/ local'[v] = [local[v] EXCEPT !.binaryScan = <<>>]
        BY <1>6 DEF BinaryScan
      <3>2. QED
        BY <1>l, <3>1, Zenon
    <2>3. /\ pc[v] \in Working \ {"resetForceSync"}
          /\ pc'[v] \in Working \ {"prepare", "deleteArtifact", "removeFinalizer"}
          /\ pc'[v] \in Fetched => pc[v] \in Fetched
      BY <1>6 DEF BinaryScan
    <2>4. QED
      BY <1>0, <2>1, <2>2, <2>3 DEF Proceeds
  <1>7. CASE SourceDedup(v)
    BY <1>7, <1>0, WorkerKeeps DEF SourceDedup, Proceeds
  <1>8. CASE SourceScan(v)
    <2>1. OnlyAt(v) /\ obj' = obj
      BY <1>8 DEF SourceScan
    <2>2. /\ local'[v].version = local[v].version
          /\ local'[v].archive = local[v].archive
          /\ local'[v].fileName = local[v].fileName
      <3>1. \/ local'[v] = local[v]
            \/ local'[v] = [local[v] EXCEPT !.sourceScan = SourceFindings[local[v].archive]]
            \/ local'[v] = [local[v] EXCEPT !.sourceScan = <<>>]
        BY <1>8 DEF SourceScan
      <3>2. QED
        BY <1>l, <3>1, Zenon
    <2>3. /\ pc[v] \in Working \ {"resetForceSync"}
          /\ pc'[v] \in Working \ {"prepare", "deleteArtifact", "removeFinalizer"}
          /\ pc'[v] \in Fetched => pc[v] \in Fetched
      BY <1>8 DEF SourceScan
    <2>4. QED
      BY <1>0, <2>1, <2>2, <2>3 DEF Proceeds
  <1>9. CASE PersistScanViolation(v)
    <2>1. Returns(v) /\ OnlyAt(v)
      BY <1>9 DEF PersistScanViolation
    <2>2. Same(WithScans(obj[v], local[v]), obj[v]) /\ WithScans(obj[v], local[v]) \in Object
      BY ObjectKeeps, WithScansType DEF WithScans
    <2>3. Same([WithScans(obj[v], local[v]) EXCEPT !.synced = FALSE, !.message = "violation"],
               WithScans(obj[v], local[v]))
      BY <2>2, ObjectKeeps
    <2>4. QED
      BY <1>9, <1>0, <2>1, <2>2, <2>3 DEF PersistScanViolation, Same
  <1>10. CASE ResetForceSync(v)
    <2>1. Returns(v) /\ OnlyAt(v)
      BY <1>10 DEF ResetForceSync, Finish
    <2>2. Same(obj'[v], obj[v])
      <3>1. obj'[v] = obj[v] \/ obj'[v] = [obj[v] EXCEPT !.forceSync = FALSE]
        BY <1>10 DEF ResetForceSync
      <3>2. QED
        BY <1>k, <3>1, ZenonT(60) DEF Same
    <2>3. QED
      BY <2>1, <2>2
  <1>11. CASE ApplyStored(v)
    <2>1. Returns(v) /\ OnlyAt(v)
      BY <1>11 DEF ApplyStored, Finish
    <2>2. Same(obj'[v], obj[v])
      <3>1. \/ obj'[v] = obj[v]
            \/ obj'[v] = [obj[v] EXCEPT !.synced = FALSE, !.message = "violation"]
            \/ obj'[v] = [obj[v] EXCEPT !.synced = TRUE, !.message = "ok"]
        BY <1>11 DEF ApplyStored, StoredBlocks, Blocking
      <3>2. QED
        BY <1>k, <3>1 DEF Same
    <2>3. QED
      BY <2>1, <2>2
  <1>12. CASE FastPathFails(v)
    BY <1>12, <1>0 DEF FastPathFails, Proceeds
  <1>13. CASE FetchFails(v)
    BY <1>13, <1>0, ObjectKeeps DEF FetchFails, Conflict
  <1>14. CASE CallFails(v)
    BY <1>14, <1>0 DEF CallFails
  <1>15. QED
    BY <1>1, <1>2, <1>3, <1>4, <1>5, <1>6, <1>7, <1>8, <1>9, <1>10, <1>11, <1>12, <1>13,
       <1>14 DEF Quiet, Failure

\* Only the upload of a worker fills a file.
LEMMA Fills ==
  ASSUME Typed, Next, NEW f \in File, storage'[f] # Nil
  PROVE  \/ storage[f] # Nil
         \/ \E v \in Version : pc[v] \in {"firstPut", "put"} /\ local[v].fileName = f
  <1> USE DEF Typed
  <1> SUFFICES ASSUME storage[f] = Nil
               PROVE  \E v \in Version : pc[v] \in {"firstPut", "put"} /\ local[v].fileName = f
    OBVIOUS
  <1>1. storage' # storage
    OBVIOUS
  <1> DEFINE Writer(v) == DeleteArtifact(v) \/ FirstPut(v) \/ Put(v) \/ CallFails(v)
  <1>2. \/ \E v \in Version : Writer(v)
        \/ \E g \in File : LoseFile(g)
        \/ Crash
    <2>1. ASSUME NEW v \in Version, WorkerStep(v) PROVE Writer(v)
      <3>1. ~(AddFinalizer(v) \/ RemoveFinalizer(v) \/ WriteTerminal(v) \/ Prepare(v) \/ FastPath(v))
        BY <1>1 DEF AddFinalizer, RemoveFinalizer, WriteTerminal, Prepare, FastPath
      <3>2. ~(Fetch(v) \/ VerifyStored(v) \/ UpdateSpec(v) \/ ResolvePolicy(v) \/ SourceDedup(v))
        BY <1>1 DEF Fetch, VerifyStored, UpdateSpec, ResolvePolicy, SourceDedup
      <3>3. ~BinaryScan(v) /\ ~SourceScan(v)
        BY <1>1 DEF BinaryScan, SourceScan
      <3>4. ~(PersistScanViolation(v) \/ WriteStatus(v) \/ ResetForceSync(v) \/ ApplyStored(v))
        BY <1>1 DEF PersistScanViolation, WriteStatus, ResetForceSync, ApplyStored
      <3>5. QED
        BY <2>1, <3>1, <3>2, <3>3, <3>4 DEF WorkerStep
    <2>2. ASSUME NEW v \in Version, Controller(v) PROVE Writer(v)
      <3>1. ~(Reconcile(v) \/ AcquireDownload(v) \/ AcquireScan(v) \/ TimerFires(v))
        BY <1>1 DEF Reconcile, AcquireDownload, AcquireScan, TimerFires
      <3>2. ~(FastPathFails(v) \/ FetchFails(v))
        BY <1>1 DEF FastPathFails, FetchFails
      <3>3. QED
        BY <2>1, <2>2, <3>1, <3>2 DEF Controller, Failure
    <2>3. ASSUME NEW v \in Version PROVE ~Operator(v)
      BY <1>1 DEF Operator, CreateVersion, DeleteVersion, SetForceSync, MoveUpstream
    <2>4. ~(EditPolicies \/ Tick \/ Restart)
      BY <1>1 DEF EditPolicies, Tick, Restart
    <2>5. QED
      BY <2>2, <2>3, <2>4 DEF Next
  <1>3. ASSUME NEW v \in Version, DeleteArtifact(v) PROVE FALSE
    BY <1>3 DEF DeleteArtifact
  <1>4. ASSUME NEW v \in Version, FirstPut(v) \/ Put(v)
        PROVE  pc[v] \in {"firstPut", "put"} /\ local[v].fileName = f
    BY <1>4 DEF FirstPut, Put, Upload
  <1>5. ASSUME NEW S \in SUBSET Version, CutShort(Writing(S))
        PROVE  \E v \in Version : pc[v] \in {"firstPut", "put"} /\ local[v].fileName = f
    BY <1>5 DEF CutShort, Writing
  <1>6. ASSUME NEW g \in File, LoseFile(g) PROVE FALSE
    BY <1>6 DEF LoseFile
  <1>7. QED
    BY <1>2, <1>3, <1>4, <1>5, <1>6, ZenonT(60) DEF CallFails, Crash

-----------------------------------------------------------------------------
\* The inductive step

\* What no step does to the storage: fill the file of another Version, or the
\* file of a Version whose finalizer is about to go.
LEMMA Protected ==
  ASSUME IInv, Next, Owned',
         \A w \in Version :
            obj'[w].exists /\ obj'[w].fileName # Nil =>
               \/ obj'[w].finalizer
               \/ Same(obj'[w], obj[w])
               \/ storage'[obj'[w].fileName] = Nil
  PROVE  ArtifactProtected'
  <1> SUFFICES ASSUME NEW w \in Version, obj'[w].exists, obj'[w].fileName # Nil,
                      storage'[obj'[w].fileName] # Nil, Same(obj'[w], obj[w])
               PROVE  obj'[w].finalizer
    BY DEF ArtifactProtected
  <1> DEFINE f == obj[w].fileName
  <1>1. f \in File /\ storage'[f] # Nil /\ obj[w].exists
    BY ObjectFields DEF Same, IInv, TypeOK, Typed
  <1>2. CASE storage[f] # Nil
    BY <1>1, <1>2 DEF IInv, ArtifactProtected, Same
  <1>3. ASSUME NEW v \in Version, pc[v] \in {"firstPut", "put"}, local[v].fileName = f
        PROVE  obj'[w].finalizer
    <2>1. f \in Names(v) /\ f \in Names(w)
      BY <1>1, <1>3 DEF Names
    <2>2. v = w
      BY <2>1 DEF IInv, NamesDisjoint
    <2>3. QED
      BY <1>3, <2>2 DEF IInv, Owned, Working, Labels, CallPoints, Same
  <1>4. QED
    BY <1>1, <1>2, <1>3, Fills DEF IInv, TypeOK

\* A file removed by reconcileDeletion does not come back before the finalizer
\* goes: nobody else writes that name.
LEMMA StaysClean ==
  ASSUME IInv, Next,
         \A w \in Version :
            pc'[w] = "removeFinalizer" /\ obj'[w].fileName # Nil =>
               \/ pc[w] = "removeFinalizer" /\ obj'[w].fileName = obj[w].fileName
               \/ storage'[obj'[w].fileName] = Nil
  PROVE  Cleaned'
  <1> SUFFICES ASSUME NEW w \in Version, pc[w] = "removeFinalizer", obj[w].fileName # Nil,
                      obj'[w].fileName = obj[w].fileName
               PROVE  storage'[obj[w].fileName] = Nil
    BY DEF Cleaned
  <1> DEFINE f == obj[w].fileName
  <1>1. f \in File /\ storage[f] = Nil
    BY ObjectFields DEF IInv, Cleaned, TypeOK, Typed
  <1>2. ASSUME NEW v \in Version, pc[v] \in {"firstPut", "put"}, local[v].fileName = f
        PROVE  FALSE
    <2>1. f \in Names(v) /\ f \in Names(w) /\ v # w
      BY <1>1, <1>2 DEF Names
    <2>2. QED
      BY <2>1 DEF IInv, NamesDisjoint
  <1>3. QED
    BY <1>1, <1>2, Fills DEF IInv, TypeOK

\* A Version may take a name nobody has.
LEMMA NamesGrow ==
  ASSUME Typed, NamesDisjoint, NEW v \in Version, NEW f,
         f \in Unused \/ f \in Names(v) \cup {Nil},
         Names(v)' \subseteq Names(v) \cup ({f} \ {Nil}),
         \A w \in Version \ {v} : Names(w)' \subseteq Names(w)
  PROVE  NamesDisjoint'
  <1>1. \A w \in Version : w # v => f \notin Names(w) \/ f = Nil
    BY DEF NamesDisjoint, Unused, Names
  <1>2. \A w \in Version : w # v => Names(v)' \cap Names(w)' = {}
    BY <1>1 DEF NamesDisjoint
  <1>3. \A w, x \in Version : w # v /\ x # v /\ w # x => Names(w)' \cap Names(x)' = {}
    BY DEF NamesDisjoint
  <1>4. QED
    BY <1>2, <1>3 DEF NamesDisjoint

\* A quiet step that writes an object is made past the finalizer branch.
LEMMA QuietBusy ==
  ASSUME NEW v \in Version, Quiet(v)
  PROVE  pc[v] \in Working \/ obj' = obj
  BY DEF Quiet, Failure, Working, Labels, CallPoints, WriteTerminal, FastPath, Fetch, VerifyStored,
     FirstPut, Put, ResolvePolicy, BinaryScan, SourceDedup, SourceScan, PersistScanViolation,
     ResetForceSync, ApplyStored, AcquireDownload, AcquireScan, FastPathFails, FetchFails,
     CallFails, api

\* An idle worker holds no name.
LEMMA IdleName == Idle.fileName = Nil
  BY DEF Idle

\* The fields of an object that does not exist.
LEMMA AbsentFields ==
  ~Absent.exists /\ ~Absent.finalizer /\ Absent.fileName = Nil /\ Absent.checksum = Nil
  BY DEF Absent

\* Quiet steps keep the invariant.
LEMMA QuietInv ==
  ASSUME IInv, NEW v \in Version, Quiet(v), Next, Typed'
  PROVE  IInv'
  <1>1. OnlyAt(v) /\ Same(obj'[v], obj[v]) /\ (Returns(v) \/ Proceeds(v))
    BY QuietStep DEF IInv
  <1>2. Gone'
    BY <1>1, QuietBusy DEF IInv, TypeOK, Gone, Owned, OnlyAt, Same
  <1>3. Owned'
    BY <1>1 DEF IInv, Owned, OnlyAt, Same, Returns, Proceeds, Working
  <1>4. Fresh'
    BY <1>1 DEF IInv, Fresh, OnlyAt, Same, Returns, Proceeds, Working
  <1>5. Archived'
    BY <1>1 DEF IInv, Archived, OnlyAt, Same, Returns, Proceeds, Fetched
  <1>6. NamesDisjoint'
    <2>1. \A w \in Version : Names(w)' \subseteq Names(w)
      BY <1>1, IdleName DEF Names, OnlyAt, Same, Returns, Proceeds
    <2>2. QED
      BY <2>1 DEF IInv, NamesDisjoint
  <1>7. ArtifactProtected'
    <2>1. \A w \in Version : Same(obj'[w], obj[w])
      BY <1>1 DEF OnlyAt, Same
    <2>2. QED
      BY <1>3, <2>1, Protected
  <1>8. Cleaned'
    <2>1. \A w \in Version : pc'[w] = "removeFinalizer" =>
             pc[w] = "removeFinalizer" /\ obj'[w].fileName = obj[w].fileName
      BY <1>1 DEF OnlyAt, Same, Returns, Proceeds
    <2>2. QED
      BY <2>1, StaysClean
  <1>9. QED
    BY <1>2, <1>3, <1>4, <1>5, <1>6, <1>7, <1>8 DEF IInv, TypeOK

\* A step that leaves the objects, the references and the workers alone.
LEMMA StillInv ==
  ASSUME IInv, UNCHANGED <<obj, refs, local, pc>>, Next, Typed'
  PROVE  IInv'
  <1>1. (Gone /\ Owned /\ Fresh /\ Archived /\ NamesDisjoint)'
    BY DEF IInv, TypeOK, Gone, Owned, Fresh, Archived, NamesDisjoint, Names
  <1>2. ArtifactProtected'
    BY <1>1, Protected DEF Same
  <1>3. Cleaned'
    BY StaysClean
  <1>4. QED
    BY <1>1, <1>2, <1>3 DEF IInv, TypeOK

\* The invariant follows from its parts for the one Version that changes.
LEMMA OneChanges ==
  ASSUME IInv, NEW v \in Version, OnlyAt(v), Next, Typed',
         ~obj'[v].exists => obj'[v] = Absent,
         pc'[v] \in Working => obj'[v].exists /\ obj'[v].finalizer,
         pc'[v] = "addFinalizer" => local'[v].version.exists,
         pc'[v] \in {"prepare", "deleteArtifact"} => local'[v].version.fileName = obj'[v].fileName,
         pc'[v] \in Working \ {"resetForceSync"} => local'[v].version.checksum = obj'[v].checksum,
         pc'[v] \in Fetched =>
            /\ local'[v].archive \in Checksum
            /\ v \in Immutable /\ obj'[v].checksum # Nil => local'[v].archive = obj'[v].checksum,
         NEW f, f \in Unused \/ f \in Names(v) \cup {Nil},
         Names(v)' \subseteq Names(v) \cup ({f} \ {Nil}),
         obj'[v].exists /\ obj'[v].fileName # Nil =>
            \/ obj'[v].finalizer
            \/ Same(obj'[v], obj[v])
            \/ storage'[obj'[v].fileName] = Nil,
         pc'[v] = "removeFinalizer" /\ obj'[v].fileName # Nil =>
            \/ pc[v] = "removeFinalizer" /\ obj'[v].fileName = obj[v].fileName
            \/ storage'[obj'[v].fileName] = Nil
  PROVE  IInv'
  <1>1. Gone'
    BY DEF IInv, TypeOK, Gone, OnlyAt
  <1>2. Owned'
    BY DEF IInv, Owned, OnlyAt
  <1>3. Fresh'
    BY DEF IInv, Fresh, OnlyAt
  <1>4. Archived'
    BY DEF IInv, Archived, OnlyAt
  <1>5. NamesDisjoint'
    <2>1. \A w \in Version \ {v} : Names(w)' \subseteq Names(w)
      BY DEF Names, OnlyAt
    <2>2. QED
      BY <2>1, NamesGrow DEF IInv, TypeOK
  <1>6. ArtifactProtected'
    BY <1>2, Protected DEF OnlyAt, Same
  <1>7. Cleaned'
    BY StaysClean DEF OnlyAt
  <1>8. QED
    BY <1>1, <1>2, <1>3, <1>4, <1>5, <1>6, <1>7 DEF IInv, TypeOK

\* Taking a key keeps the invariant.
LEMMA ReconcileInv ==
  ASSUME IInv, NEW v \in Version, Reconcile(v), Next, Typed'
  PROVE  IInv'
  <1>1. obj' = obj /\ OnlyAt(v) /\ pc'[v] = Branch(obj[v])
    BY DEF Reconcile, Goto, OnlyAt, api, IInv, TypeOK, Typed
  <1>2. /\ local'[v].fileName = local[v].fileName
        /\ Branch(obj[v]) # "idle" => local'[v].version = obj[v]
    BY DEF Reconcile, IInv, TypeOK, Typed, Worker
  <1>3. /\ pc'[v] \in {"idle", "addFinalizer", "deleteArtifact", "removeFinalizer",
                       "terminal", "prepare"}
        /\ pc'[v] # "idle" => obj[v].exists
        /\ pc'[v] \notin {"idle", "addFinalizer"} => obj[v].finalizer
        /\ pc'[v] = "removeFinalizer" => obj[v].fileName = Nil
    BY <1>1, BranchFacts DEF IInv, TypeOK, Typed, Gone
  <1>4. Names(v)' \subseteq Names(v)
    BY <1>1, <1>2 DEF Names, OnlyAt
  <1>5. Same(obj'[v], obj[v]) /\ (~obj'[v].exists => obj'[v] = Absent)
    BY <1>1 DEF Same, IInv, TypeOK, Gone
  <1>6. QED
    BY <1>1, <1>2, <1>3, <1>4, <1>5, OneChanges DEF Working, Fetched

\* Adding the finalizer, and the two steps of reconcileDeletion, keep it.
LEMMA FinalizerInv ==
  ASSUME IInv, NEW v \in Version, AddFinalizer(v) \/ DeleteArtifact(v) \/ RemoveFinalizer(v),
         Next, Typed'
  PROVE  IInv'
  <1> USE DEF Working, Fetched
  <1>1. CASE AddFinalizer(v)
    <2>1. OnlyAt(v) /\ Returns(v)
      BY <1>1 DEF AddFinalizer, Requeue, Return, OnlyAt, Returns, IInv, TypeOK, Typed
    <2>2. CASE Conflict(v)
      <3>1. obj' = obj
        BY <1>1, <2>2 DEF AddFinalizer, Conflict
      <3>2. Names(v)' \subseteq Names(v) /\ Same(obj'[v], obj[v])
        BY <2>1, <3>1, IdleName DEF Names, OnlyAt, Returns, Same
      <3>3. ~obj'[v].exists => obj'[v] = Absent
        BY <3>1 DEF IInv, TypeOK, Gone
      <3>4. QED
        BY <2>1, <3>2, <3>3, OneChanges DEF Returns
    <2>3. CASE ~Conflict(v)
      <3>1. obj'[v] = [obj[v] EXCEPT !.finalizer = TRUE]
        BY <1>1, <2>3 DEF AddFinalizer, Conflict, IInv, TypeOK, Typed
      <3>2. obj[v].exists
        BY <1>1, <2>3 DEF AddFinalizer, Conflict, IInv, Owned
      <3>3. obj'[v].exists /\ obj'[v].finalizer /\ obj'[v].fileName = obj[v].fileName
        BY <3>1, <3>2, ObjectSets DEF IInv, TypeOK, Typed
      <3>4. Names(v)' \subseteq Names(v)
        BY <2>1, <3>3, IdleName DEF Names, OnlyAt, Returns
      <3>5. QED
        BY <2>1, <3>3, <3>4, OneChanges DEF Returns
    <2>4. QED
      BY <2>2, <2>3
  <1>2. CASE DeleteArtifact(v)
    <2>1. OnlyAt(v) /\ obj' = obj /\ local' = local /\ pc'[v] = "removeFinalizer"
      BY <1>2 DEF DeleteArtifact, Goto, OnlyAt, api, IInv, TypeOK, Typed
    <2>2. local[v].version.fileName = obj[v].fileName
      BY <1>2 DEF DeleteArtifact, IInv, Fresh
    <2>3. obj[v].fileName # Nil => storage'[obj[v].fileName] = Nil
      BY <1>2, <2>2, ObjectFields DEF DeleteArtifact, IInv, TypeOK, Typed
    <2>4. Names(v)' \subseteq Names(v) /\ Same(obj'[v], obj[v])
      BY <2>1 DEF Names, OnlyAt, Same
    <2>5. /\ obj[v].exists /\ obj[v].finalizer
          /\ local[v].version.checksum = obj[v].checksum
      BY <1>2 DEF DeleteArtifact, IInv, Owned, Fresh, Labels, CallPoints
    <2>6. QED
      BY <2>1, <2>3, <2>4, <2>5, OneChanges
  <1>3. CASE RemoveFinalizer(v)
    <2>1. OnlyAt(v) /\ Returns(v) /\ (obj'[v] = obj[v] \/ obj'[v] = Absent)
      BY <1>3 DEF RemoveFinalizer, Return, OnlyAt, Returns, Conflict, IInv, TypeOK, Typed
    <2>2. Names(v)' \subseteq Names(v)
      BY <2>1, IdleName, AbsentFields DEF Names, OnlyAt, Returns
    <2>3. ~obj'[v].exists => obj'[v] = Absent
      BY <2>1 DEF IInv, TypeOK, Gone
    <2>4. obj'[v].exists => Same(obj'[v], obj[v])
      BY <2>1, AbsentFields DEF Same
    <2>5. QED
      BY <2>1, <2>2, <2>3, <2>4, OneChanges DEF Returns
  <1>4. QED
    BY <1>1, <1>2, <1>3

\* Choosing the file name keeps it: a new name is nobody's.
LEMMA PrepareInv ==
  ASSUME IInv, NEW v \in Version, Prepare(v), Next, Typed'
  PROVE  IInv'
  <1> DEFINE o == local[v].version
             managed == ~IsProvider(v) /\ refs[v] # Nil
  <1>1. PICK f : /\ f \in CASE managed -> {refs[v]}
                            [] ~managed /\ (IsProvider(v) \/ o.fileName # Nil) -> {o.fileName}
                            [] OTHER -> Generated
                 /\ local' = [local EXCEPT ![v].fileName = f,
                                           ![v].config = IF managed THEN "module" ELSE o.config]
    BY DEF Prepare
  <1>2. obj' = obj /\ OnlyAt(v) /\ pc[v] = "prepare" /\ pc'[v] = "fastPath"
    BY DEF Prepare, Goto, OnlyAt, api, IInv, TypeOK, Typed
  <1>3. local'[v].fileName = f /\ local'[v].version = local[v].version
    BY <1>1 DEF IInv, TypeOK, Typed, Worker
  <1>4. o.fileName = obj[v].fileName /\ o.checksum = obj[v].checksum
    BY <1>2 DEF IInv, Fresh, Working, Labels, CallPoints
  <1>5. f \in Unused \/ f \in Names(v) \cup {Nil}
    BY <1>1, <1>4 DEF Generated, Names
  <1>6. Names(v)' \subseteq Names(v) \cup ({f} \ {Nil})
    BY <1>2, <1>3 DEF Names, OnlyAt
  <1>7. obj[v].exists /\ obj[v].finalizer
    BY <1>2 DEF IInv, Owned, Working, Labels, CallPoints
  <1>8. QED
    BY <1>2, <1>3, <1>4, <1>5, <1>6, <1>7, OneChanges DEF Fetched

\* The download keeps it: the archive of an immutable Version is the recorded
\* one.
LEMMA FetchInv ==
  ASSUME IInv, NEW v \in Version, Fetch(v), ~Moved(v), Next, Typed'
  PROVE  IInv'
  <1>1. PICK f \in IF local[v].fileName # Nil THEN {local[v].fileName} ELSE Generated :
           local' = [local EXCEPT ![v].archive = upstream[v], ![v].fileName = f]
    BY DEF Fetch
  <1>2. obj' = obj /\ OnlyAt(v) /\ pc[v] = "fetch" /\ pc'[v] \in {"verify", "firstPut"}
    BY DEF Fetch, Goto, OnlyAt, api, IInv, TypeOK, Typed
  <1>3. /\ local'[v].fileName = f /\ local'[v].archive = upstream[v]
        /\ local'[v].version = local[v].version
    BY <1>1 DEF IInv, TypeOK, Typed, Worker
  <1>4. local[v].version.checksum = obj[v].checksum /\ obj[v].exists /\ obj[v].finalizer
    BY <1>2 DEF IInv, Fresh, Owned, Working, Labels
  <1>5. upstream[v] \in Checksum
    BY DEF IInv, TypeOK, Typed
  <1>6. v \in Immutable /\ obj[v].checksum # Nil => upstream[v] = obj[v].checksum
    BY <1>4 DEF Moved
  <1>7. f \in Unused \/ f \in Names(v) \cup {Nil}
    BY <1>1 DEF Generated, Names
  <1>8. Names(v)' \subseteq Names(v) \cup ({f} \ {Nil})
    BY <1>2, <1>3 DEF Names, OnlyAt
  <1>9. QED
    BY <1>2, <1>3, <1>4, <1>5, <1>6, <1>7, <1>8, OneChanges

\* Persisting the file name keeps it: the finalizer is there already.
LEMMA UpdateSpecInv ==
  ASSUME IInv, NEW v \in Version, UpdateSpec(v), Next, Typed'
  PROVE  IInv'
  <1>1. pc[v] = "updateSpec" /\ obj[v].exists /\ obj[v].finalizer
    BY DEF UpdateSpec, IInv, Owned, Working, Labels, CallPoints
  <1>2. /\ OnlyAt(v) /\ local' = local
        /\ pc'[v] \in {"resolve", "writeStatus"}
        /\ obj'[v] = [obj[v] EXCEPT !.fileName = local[v].fileName, !.config = local[v].config]
    BY <1>1, ZenonT(60) DEF UpdateSpec, Goto, OnlyAt, IInv, TypeOK, Typed
  <1>3. /\ obj'[v].exists /\ obj'[v].finalizer
        /\ obj'[v].fileName = local[v].fileName /\ obj'[v].checksum = obj[v].checksum
    BY <1>1, <1>2, ObjectSets DEF IInv, TypeOK, Typed
  <1>4. /\ local[v].version.checksum = obj[v].checksum
        /\ local[v].archive \in Checksum
        /\ v \in Immutable /\ obj[v].checksum # Nil => local[v].archive = obj[v].checksum
    BY <1>1 DEF IInv, Fresh, Archived, Working, Fetched, Labels, CallPoints
  <1>5. Names(v)' \subseteq Names(v)
    BY <1>2, <1>3 DEF Names, OnlyAt
  <1>6. QED
    BY <1>2, <1>3, <1>4, <1>5, OneChanges

\* The archive written to the status of an immutable Version is the recorded one.
LEMMA WriteStatusInv ==
  ASSUME IInv, NEW v \in Version, WriteStatus(v), Next, Typed'
  PROVE  /\ IInv'
         /\ OnlyAt(v)
         /\ v \in Immutable /\ obj[v].checksum # Nil => obj'[v].checksum = obj[v].checksum
         /\ obj'[v].exists
  <1>1. pc[v] = "writeStatus" /\ obj[v].exists /\ obj[v].finalizer
    BY DEF WriteStatus, IInv, Owned, Working, Labels, CallPoints
  <1> DEFINE o == WithScans(obj[v], local[v])
  <1>2. obj' = [obj EXCEPT ![v] = [o EXCEPT
                   !.synced = TRUE, !.checksum = local[v].archive, !.message = "ok"]]
    BY <1>1 DEF WriteStatus
  <1>3. o \in Object /\ Same(o, obj[v])
    BY WithScansType, ObjectKeeps DEF WithScans, IInv, TypeOK, Typed
  <1>4. /\ obj'[v].exists /\ obj'[v].finalizer
        /\ obj'[v].fileName = obj[v].fileName /\ obj'[v].checksum = local[v].archive
    <2> DEFINE n == [o EXCEPT !.synced = TRUE, !.checksum = local[v].archive, !.message = "ok"]
    <2>1. obj'[v] = n
      BY <1>2 DEF IInv, TypeOK, Typed
    <2>2. /\ n.exists = o.exists /\ n.finalizer = o.finalizer
          /\ n.fileName = o.fileName /\ n.checksum = local[v].archive
      BY <1>3, ObjectSets
    <2> HIDE DEF n, o
    <2>3. QED
      BY <1>1, <1>3, <2>1, <2>2 DEF Same
  <1>5. /\ OnlyAt(v)
        /\ Returns(v) \/ (pc'[v] = "resetForceSync" /\ local' = local)
    BY <1>1, <1>2 DEF WriteStatus, Finish, Requeue, Return, Goto, OnlyAt, Returns, IInv, TypeOK, Typed
  <1>6. v \in Immutable /\ obj[v].checksum # Nil => local[v].archive = obj[v].checksum
    BY <1>1 DEF IInv, Archived, Fetched
  <1>7. Names(v)' \subseteq Names(v)
    BY <1>4, <1>5, IdleName DEF Names, OnlyAt, Returns
  <1>8. IInv'
    BY <1>4, <1>5, <1>7, OneChanges DEF Returns, Working, Fetched
  <1>9. QED
    BY <1>4, <1>5, <1>6, <1>8

\* Creation, deletion and edits of the objects.
LEMMA OperatorInv ==
  ASSUME IInv, NEW v \in Version, CreateVersion(v) \/ DeleteVersion(v) \/ SetForceSync(v),
         Next, Typed'
  PROVE  IInv'
  <1> USE DEF Working, Fetched
  <1>1. CASE CreateVersion(v)
    <2>1. PICK f \in {Nil} \cup (IF IsProvider(v) THEN {} ELSE Generated), c \in {"given", "dual"} :
             obj' = [obj EXCEPT ![v] = NewVersion(f, c)] /\ refs' = [refs EXCEPT ![v] = f]
      BY <1>1 DEF CreateVersion
    <2>2. f \in FileOrNil /\ (f \in Unused \/ f = Nil) /\ (f # Nil => storage[f] = Nil)
      BY <2>1 DEF Generated, Unused
    <2>3. ~obj[v].exists /\ local' = local /\ pc' = pc /\ storage' = storage
      BY <1>1 DEF CreateVersion
    <2>4. pc[v] \notin Working
      BY <2>3 DEF IInv, Owned
    <2>5. obj'[v].exists /\ obj'[v].fileName = f
      BY <2>1, <2>2 DEF NewVersion, Absent, IInv, TypeOK, Typed
    <2>6. \A w \in Version \ {v} : obj'[w] = obj[w] /\ refs'[w] = refs[w]
      BY <2>1 DEF IInv, TypeOK, Typed
    <2>7. (Gone /\ Owned /\ Fresh /\ Archived)'
      BY <2>3, <2>4, <2>5, <2>6 DEF IInv, TypeOK, Gone, Owned, Fresh, Archived, Labels, CallPoints
    <2>8. NamesDisjoint'
      <3>1. Names(v)' \subseteq Names(v) \cup ({f} \ {Nil})
        BY <2>1, <2>3, <2>5 DEF Names, IInv, TypeOK, Typed
      <3>2. \A w \in Version \ {v} : Names(w)' \subseteq Names(w)
        BY <2>3, <2>6 DEF Names
      <3>3. QED
        BY <2>2, <3>1, <3>2, NamesGrow DEF IInv, TypeOK
    <2>9. ArtifactProtected'
      BY <2>2, <2>3, <2>5, <2>6 DEF IInv, ArtifactProtected
    <2>10. Cleaned'
      BY <2>3, <2>4, <2>6 DEF IInv, Cleaned, Labels, CallPoints
    <2>11. QED
      BY <2>7, <2>8, <2>9, <2>10 DEF IInv, TypeOK
  <1>2. CASE DeleteVersion(v)
    <2>1. OnlyAt(v) /\ local' = local /\ pc' = pc
      BY <1>2 DEF DeleteVersion, OnlyAt, IInv, TypeOK, Typed
    <2>2. CASE obj[v].finalizer
      <3>1. obj'[v] = [obj[v] EXCEPT !.deleting = TRUE]
        BY <1>2, <2>2 DEF DeleteVersion, IInv, TypeOK, Typed
      <3>2. Same(obj'[v], obj[v]) /\ obj[v].exists
        <4>1. Same([obj[v] EXCEPT !.deleting = TRUE], obj[v])
          BY ObjectKeeps DEF IInv, TypeOK, Typed
        <4>2. QED
          BY <1>2, <3>1, <4>1 DEF DeleteVersion
      <3>3. Names(v)' \subseteq Names(v)
        BY <2>1, <3>2 DEF Names, OnlyAt, Same
      <3>4. QED
        BY <2>1, <3>2, <3>3, OneChanges DEF Same, IInv, Owned, Fresh, Archived
    <2>3. CASE ~obj[v].finalizer
      <3>1. obj'[v] = Absent
        BY <1>2, <2>3 DEF DeleteVersion, IInv, TypeOK, Typed
      <3>2. pc[v] \in {"idle", "addFinalizer"}
        BY <2>3 DEF IInv, Owned, TypeOK, Typed
      <3>3. Names(v)' \subseteq Names(v)
        BY <2>1, <3>1, AbsentFields DEF Names, OnlyAt
      <3>4. QED
        BY <2>1, <3>1, <3>2, <3>3, AbsentFields, OneChanges DEF IInv, Owned
    <2>4. QED
      BY <2>2, <2>3
  <1>3. CASE SetForceSync(v)
    <2>1. OnlyAt(v) /\ local' = local /\ pc' = pc /\ obj'[v] = [obj[v] EXCEPT !.forceSync = TRUE]
      BY <1>3 DEF SetForceSync, OnlyAt, IInv, TypeOK, Typed
    <2>2. Same(obj'[v], obj[v]) /\ obj[v].exists
      BY <1>3, <2>1, ObjectKeeps DEF SetForceSync, IInv, TypeOK, Typed
    <2>3. Names(v)' \subseteq Names(v)
      BY <2>1, <2>2 DEF Names, OnlyAt, Same
    <2>4. QED
      BY <2>1, <2>2, <2>3, OneChanges DEF Same, IInv, Owned, Fresh, Archived
  <1>4. QED
    BY <1>1, <1>2, <1>3

\* A crash forgets the workers, never the objects.
LEMMA CrashInv ==
  ASSUME IInv, Crash, Next, Typed'
  PROVE  IInv'
  <1>1. /\ obj' = obj /\ refs' = refs
        /\ \A v \in Version : pc'[v] = "idle" /\ local'[v] = Idle
    BY DEF Crash, api
  <1>2. (Gone /\ Owned /\ Fresh /\ Archived)'
    BY <1>1 DEF IInv, TypeOK, Gone, Owned, Fresh, Archived, Working, Fetched
  <1>3. NamesDisjoint'
    <2>1. \A w \in Version : Names(w)' \subseteq Names(w)
      BY <1>1, IdleName DEF Names
    <2>2. QED
      BY <2>1 DEF IInv, NamesDisjoint
  <1>4. ArtifactProtected'
    BY <1>1, <1>2, Protected DEF Same
  <1>5. Cleaned'
    BY <1>1, StaysClean
  <1>6. QED
    BY <1>2, <1>3, <1>4, <1>5 DEF IInv, TypeOK

\* The invariant holds initially.
LEMMA InitInv == Init => IInv
  <1> SUFFICES ASSUME Init PROVE IInv
    OBVIOUS
  <1>1. Typed
    BY InitType
  <1>2. \A v \in Version : /\ obj[v] = Absent /\ refs[v] = Nil
                           /\ pc[v] = "idle" /\ local[v] = Idle
    BY DEF Init
  <1>3. \A v \in Version : Names(v) = {}
    BY <1>2, AbsentFields, IdleName DEF Names
  <1>4. QED
    BY <1>1, <1>2, <1>3, AbsentFields DEF IInv, TypeOK, Gone, Owned, Fresh, Archived, NamesDisjoint,
       Cleaned, ArtifactProtected, Working, Fetched

\* The kinds of steps.
LEMMA NextCases ==
  ASSUME Next
  PROVE  \/ \E v \in Version :
              \/ Quiet(v) \/ Reconcile(v)
              \/ AddFinalizer(v) \/ DeleteArtifact(v) \/ RemoveFinalizer(v)
              \/ Prepare(v) \/ (Fetch(v) /\ ~Moved(v)) \/ UpdateSpec(v) \/ WriteStatus(v)
              \/ CreateVersion(v) \/ DeleteVersion(v) \/ SetForceSync(v)
         \/ Crash
         \/ UNCHANGED <<obj, refs, local, pc>>
  <1>1. ASSUME NEW v \in Version, TimerFires(v) \/ MoveUpstream(v)
        PROVE  UNCHANGED <<obj, refs, local, pc>>
    BY <1>1 DEF TimerFires, MoveUpstream, api
  <1>2. ASSUME (\E f \in File : LoseFile(f)) \/ EditPolicies \/ Tick \/ Restart
        PROVE  UNCHANGED <<obj, refs, local, pc>>
    BY <1>2 DEF LoseFile, EditPolicies, Tick, Restart, api
  <1>3. QED
    BY <1>1, <1>2 DEF Next, Controller, Operator, WorkerStep, Quiet

\* Every step keeps the invariant.
LEMMA NextInv == IInv /\ [Next]_vars => IInv'
  <1> SUFFICES ASSUME IInv, [Next]_vars PROVE IInv'
    OBVIOUS
  <1>1. CASE UNCHANGED vars
    BY <1>1 DEF vars, IInv, TypeOK, Typed, Gone, Owned, Fresh, Archived, NamesDisjoint, Names,
       Cleaned, ArtifactProtected
  <1>2. CASE Next
    <2>1. Typed'
      BY <1>2, NextType DEF IInv
    <2>2. QED
      BY <1>2, <2>1, NextCases, QuietInv, ReconcileInv, FinalizerInv, PrepareInv, FetchInv,
         UpdateSpecInv, WriteStatusInv, OperatorInv, CrashInv, StillInv
  <1>3. QED
    BY <1>1, <1>2

-----------------------------------------------------------------------------
\* What a step may do to the existence and to the checksum of an object

\* How an object can appear, disappear or change its checksum.
LEMMA ObjectStep ==
  ASSUME IInv, Next, NEW w \in Version
  PROVE  \/ obj'[w].exists = obj[w].exists /\ obj'[w].checksum = obj[w].checksum
         \/ RemoveFinalizer(w) /\ obj'[w] = Absent /\ storage' = storage
         \/ DeleteVersion(w) /\ ~obj[w].finalizer /\ obj'[w] = Absent /\ storage' = storage
         \/ CreateVersion(w) /\ ~obj[w].exists
         \/ WriteStatus(w)
  <1> USE DEF IInv, TypeOK, Typed
  <1>1. ASSUME NEW v \in Version, Quiet(v)
        PROVE  obj'[w].exists = obj[w].exists /\ obj'[w].checksum = obj[w].checksum
    BY <1>1, QuietStep DEF OnlyAt, Same
  <1>2. ASSUME NEW v \in Version, Reconcile(v) \/ DeleteArtifact(v) \/ Prepare(v)
                                    \/ (Fetch(v) /\ ~Moved(v))
        PROVE  obj' = obj
    BY <1>2 DEF Reconcile, DeleteArtifact, Prepare, Fetch, api
  <1>3. ASSUME NEW v \in Version, AddFinalizer(v)
        PROVE  obj'[w].exists = obj[w].exists /\ obj'[w].checksum = obj[w].checksum
    BY <1>3, ObjectSets DEF AddFinalizer, Conflict
  <1>4. ASSUME NEW v \in Version, RemoveFinalizer(v)
        PROVE  obj'[w] = obj[w] \/ (w = v /\ obj'[w] = Absent /\ storage' = storage)
    BY <1>4 DEF RemoveFinalizer, Conflict
  <1>5. ASSUME NEW v \in Version, UpdateSpec(v)
        PROVE  obj'[w].exists = obj[w].exists /\ obj'[w].checksum = obj[w].checksum
    <2>1. obj'[w] \in {obj[w], [obj[w] EXCEPT !.fileName = local[w].fileName,
                                              !.config = local[w].config]}
      <3> HIDE DEF IInv, TypeOK, Typed
      <3>1. obj \in [Version -> Object]
        BY DEF IInv, TypeOK, Typed
      <3>2. \/ obj' = obj
            \/ obj' = [obj EXCEPT ![v].fileName = local[v].fileName,
                                  ![v].config = local[v].config]
        BY <1>5 DEF UpdateSpec
      <3>3. CASE w = v
        BY <3>1, <3>2, <3>3
      <3>4. CASE w # v
        BY <3>1, <3>2, <3>4
      <3>5. QED
        BY <3>3, <3>4
    <2>2. LET n == [obj[w] EXCEPT !.fileName = local[w].fileName, !.config = local[w].config]
          IN  n.exists = obj[w].exists /\ n.checksum = obj[w].checksum
      BY ObjectSets
    <2>3. QED
      BY <2>1, <2>2
  <1>6. ASSUME NEW v \in Version, WriteStatus(v), w # v PROVE obj'[w] = obj[w]
    BY <1>6 DEF WriteStatus
  <1>7. ASSUME NEW v \in Version, CreateVersion(v)
        PROVE  obj'[w] = obj[w] \/ (w = v /\ ~obj[w].exists)
    BY <1>7 DEF CreateVersion
  <1>8. ASSUME NEW v \in Version, DeleteVersion(v)
        PROVE  \/ obj'[w].exists = obj[w].exists /\ obj'[w].checksum = obj[w].checksum
               \/ w = v /\ ~obj[w].finalizer /\ obj'[w] = Absent /\ storage' = storage
    <2>1. obj'[w] \in {obj[w], [obj[w] EXCEPT !.deleting = TRUE]}
             \/ (w = v /\ ~obj[w].finalizer /\ obj'[w] = Absent)
      BY <1>8 DEF DeleteVersion
    <2>2. Same([obj[w] EXCEPT !.deleting = TRUE], obj[w])
      BY ObjectKeeps
    <2>3. QED
      BY <1>8, <2>1, <2>2 DEF DeleteVersion, Same
  <1>9. ASSUME NEW v \in Version, SetForceSync(v)
        PROVE  obj'[w].exists = obj[w].exists /\ obj'[w].checksum = obj[w].checksum
    <2>1. obj'[w] \in {obj[w], [obj[w] EXCEPT !.forceSync = TRUE]}
      BY <1>9 DEF SetForceSync
    <2>2. Same([obj[w] EXCEPT !.forceSync = TRUE], obj[w])
      BY ObjectKeeps
    <2>3. QED
      BY <2>1, <2>2 DEF Same
  <1>10. CASE Crash
    BY <1>10 DEF Crash, api
  <1> HIDE DEF IInv, TypeOK, Typed
  <1>11. QED
    BY NextCases, <1>1, <1>2, <1>3, <1>4, <1>5, <1>6, <1>7, <1>8, <1>9, <1>10

\* Why VanishesClean holds: the worker removed the file before the finalizer,
\* and an object deleted without a finalizer has no file.
LEMMA VanishStep ==
  ASSUME IInv, Next, NEW v \in Version,
         obj[v].exists, ~obj'[v].exists, obj[v].fileName # Nil
  PROVE  storage'[obj[v].fileName] = Nil
  <1>1. \/ RemoveFinalizer(v) /\ storage' = storage
        \/ DeleteVersion(v) /\ ~obj[v].finalizer /\ storage' = storage
        \/ WriteStatus(v)
    BY ObjectStep
  <1>2. CASE RemoveFinalizer(v) /\ storage' = storage
    BY <1>2 DEF RemoveFinalizer, IInv, Cleaned
  <1>3. CASE DeleteVersion(v) /\ ~obj[v].finalizer /\ storage' = storage
    BY <1>3 DEF IInv, ArtifactProtected
  <1>4. CASE WriteStatus(v)
    BY <1>4, NextType, WriteStatusInv DEF IInv
  <1>5. QED
    BY <1>1, <1>2, <1>3, <1>4

\* No step changes the recorded checksum of an immutable Version.
LEMMA ImmutableStep ==
  ASSUME IInv, Next, NEW v \in Immutable, obj[v].checksum # Nil, obj'[v].exists
  PROVE  obj'[v].checksum = obj[v].checksum
  <1>1. v \in Version
    OBVIOUS
  <1>2. obj[v].exists
    BY <1>1, AbsentFields DEF IInv, TypeOK, Gone
  <1>3. obj'[v].checksum = obj[v].checksum \/ WriteStatus(v)
    BY <1>1, <1>2, ObjectStep, AbsentFields
  <1>4. QED
    BY <1>1, <1>3, NextType, WriteStatusInv DEF IInv

-----------------------------------------------------------------------------
\* The theorems

\* The inductive invariant holds in every reachable state of the controller.
THEOREM Invariance == Spec => []IInv
  BY InitInv, NextInv, PTL DEF Spec

\* The types hold, and no stale write brings a deleted Version back in part.
THEOREM TypeCorrect == Spec => []TypeOK
  <1>1. IInv => TypeOK
    BY DEF IInv
  <1>2. QED
    BY Invariance, <1>1, PTL

\* No Version with a stored archive is without the finalizer: a deletion goes
\* through reconcileDeletion, whatever crashes and failures came before.
THEOREM Protection == Spec => []ArtifactProtected
  <1>1. IInv => ArtifactProtected
    BY DEF IInv
  <1>2. QED
    BY Invariance, <1>1, PTL

\* An object that disappears leaves nothing stored under its name.
THEOREM CleanDeletion == Spec => VanishesClean
  <1>1. IInv /\ [Next]_vars =>
          [\A v \in Version :
              obj[v].exists /\ ~obj'[v].exists /\ obj[v].fileName # Nil
                => storage'[obj[v].fileName] = Nil]_vars
    BY VanishStep
  <1>2. QED
    BY Invariance, <1>1, PTL DEF Spec, VanishesClean

\* The recorded checksum of an immutable Version never changes, although the
\* upstream may: the check in Reconcile and the final status write are many
\* steps apart and read different copies of the object.
THEOREM ChecksumPinned == Spec => ImmutableChecksum
  <1>1. IInv /\ [Next]_vars =>
          [\A v \in Immutable :
              obj[v].checksum # Nil /\ obj'[v].exists => obj'[v].checksum = obj[v].checksum]_vars
    BY ImmutableStep
  <1>2. QED
    BY Invariance, <1>1, PTL DEF Spec, ImmutableChecksum

-----------------------------------------------------------------------------
\* The refinement: the Version controller implements ArtifactLifecycle.  Two
\* facts are needed beside the inductive invariant: only an object that
\* terminates is cleaned up, and only a protected one terminates.

\* A Version that terminates keeps its finalizer until it is gone.
Terminating == \A v \in Version : obj[v].deleting => obj[v].finalizer

Stage(n, o) == n.exists = o.exists /\ n.finalizer = o.finalizer /\ n.deleting = o.deleting

-----------------------------------------------------------------------------
\* Objects

\* The writes that keep the stage an object is in.
LEMMA StageKeeps ==
  ASSUME NEW o \in Object
  PROVE  /\ \A b : Stage([o EXCEPT !.forceSync = b], o)
         /\ \A m : Stage([o EXCEPT !.message = m], o)
         /\ \A b, m : Stage([o EXCEPT !.synced = b, !.message = m], o)
         /\ \A b, s : Stage([o EXCEPT !.binaryScan = b, !.sourceScan = s], o)
         /\ \A f, c : Stage([o EXCEPT !.fileName = f, !.config = c], o)
         /\ \A c : Stage([o EXCEPT !.synced = TRUE, !.checksum = c, !.message = "ok"], o)
         /\ Stage(o, o)
  BY DEF Object, Stage

\* Two such writes in a row.
LEMMA StageTwice ==
  ASSUME NEW a, NEW b, NEW c, Stage(a, b), Stage(b, c)
  PROVE  Stage(a, c)
  BY DEF Stage

\* The scans a reconcile adds keep the stage.
LEMMA StageWithScans ==
  ASSUME NEW o \in Object, NEW l \in Worker
  PROVE  /\ \A m : Stage([WithScans(o, l) EXCEPT !.synced = FALSE, !.message = m], o)
         /\ \A c : Stage([WithScans(o, l) EXCEPT !.synced = TRUE, !.checksum = c, !.message = "ok"], o)
  <1>1. Stage(WithScans(o, l), o) /\ WithScans(o, l) \in Object
    BY StageKeeps, WithScansType DEF WithScans
  <1> DEFINE s == WithScans(o, l)
  <1> HIDE DEF s
  <1>2. /\ \A m : Stage([s EXCEPT !.synced = FALSE, !.message = m], s)
        /\ \A c : Stage([s EXCEPT !.synced = TRUE, !.checksum = c, !.message = "ok"], s)
    BY <1>1, StageKeeps DEF s
  <1>3. QED
    BY <1>1, <1>2, StageTwice DEF s

\* A quiet step keeps the stage of the object it works on.
LEMMA QuietStage ==
  ASSUME TypeOK, NEW v \in Version, Quiet(v)
  PROVE  Stage(obj'[v], obj[v])
  <1> DEFINE o == obj[v]
  <1>0. obj \in [Version -> Object] /\ o \in Object /\ local[v] \in Worker
    BY DEF TypeOK, Typed
  <1>s. Stage(o, o)
    BY DEF Stage
  <1>1. CASE WriteTerminal(v)
    <2>1. o' = o \/ o' = [o EXCEPT !.synced = FALSE, !.message = "terminal"]
      BY <1>0, <1>1 DEF WriteTerminal, Conflict
    <2>2. Stage([o EXCEPT !.synced = FALSE, !.message = "terminal"], o)
      BY <1>0, StageKeeps
    <2>3. QED
      BY <1>s, <2>1, <2>2
  <1>2. CASE Fetch(v) /\ Moved(v)
    <2>1. o' = o \/ o' = [o EXCEPT !.synced = FALSE, !.message = "error"]
      BY <1>0, <1>2 DEF Fetch, Conflict
    <2>2. Stage([o EXCEPT !.synced = FALSE, !.message = "error"], o)
      BY <1>0, StageKeeps
    <2>3. QED
      BY <1>s, <2>1, <2>2
  <1>3. CASE FastPath(v) \/ VerifyStored(v) \/ FirstPut(v) \/ Put(v) \/ ResolvePolicy(v)
    <2>1. obj' = obj
      BY <1>3 DEF FastPath, VerifyStored, FirstPut, Put, ResolvePolicy, api
    <2>2. QED
      BY <1>0, <2>1, StageKeeps
  <1>4. CASE BinaryScan(v) \/ SourceDedup(v) \/ SourceScan(v) \/ AcquireDownload(v) \/ AcquireScan(v)
    <2>1. obj' = obj
      BY <1>4 DEF BinaryScan, SourceDedup, SourceScan, AcquireDownload, AcquireScan, api
    <2>2. QED
      BY <1>0, <2>1, StageKeeps
  <1>5. CASE PersistScanViolation(v)
    <2>1. o' = o \/ o' = [WithScans(o, local[v]) EXCEPT !.synced = FALSE, !.message = "violation"]
      BY <1>0, <1>5 DEF PersistScanViolation
    <2>2. Stage([WithScans(o, local[v]) EXCEPT !.synced = FALSE, !.message = "violation"], o)
      BY <1>0, StageWithScans
    <2>3. QED
      BY <1>s, <2>1, <2>2
  <1>6. CASE ResetForceSync(v)
    <2>1. o' = o \/ o' = [o EXCEPT !.forceSync = FALSE]
      BY <1>0, <1>6 DEF ResetForceSync
    <2>2. QED
      BY <1>0, <2>1, StageKeeps
  <1>7. CASE ApplyStored(v)
    <2>1. \/ o' = o
          \/ o' = [o EXCEPT !.synced = FALSE, !.message = "violation"]
          \/ o' = [o EXCEPT !.synced = TRUE, !.message = "ok"]
      BY <1>0, <1>7 DEF ApplyStored, StoredBlocks, Blocking
    <2>2. /\ Stage([o EXCEPT !.synced = FALSE, !.message = "violation"], o)
          /\ Stage([o EXCEPT !.synced = TRUE, !.message = "ok"], o)
      BY <1>0, StageKeeps
    <2>3. QED
      BY <1>s, <2>1, <2>2
  <1>8. CASE Failure(v)
    <2>1. o' = o \/ o' = [o EXCEPT !.message = "error"]
      BY <1>0, <1>8 DEF Failure, FastPathFails, FetchFails, CallFails, Conflict, api
    <2>2. QED
      BY <1>0, <2>1, StageKeeps
  <1>9. QED
    BY <1>1, <1>2, <1>3, <1>4, <1>5, <1>6, <1>7, <1>8 DEF Quiet

\* How an object can come to another stage.
LEMMA StageStep ==
  ASSUME TypeOK, Next, NEW w \in Version
  PROVE  \/ Stage(obj'[w], obj[w])
         \/ AddFinalizer(w) /\ ~Conflict(w) /\ obj'[w] = [obj[w] EXCEPT !.finalizer = TRUE]
                            /\ storage' = storage
         \/ RemoveFinalizer(w) /\ ~Conflict(w) /\ obj'[w] = Absent
         \/ DeleteVersion(w) /\ storage' = storage /\ pc' = pc
              /\ obj'[w] = IF obj[w].finalizer THEN [obj[w] EXCEPT !.deleting = TRUE] ELSE Absent
         \/ CreateVersion(w) /\ obj'[w] # obj[w]
  <1>0. obj \in [Version -> Object] /\ obj[w] \in Object /\ local[w] \in Worker
    BY DEF TypeOK, Typed
  <1>s. Stage(obj[w], obj[w])
    BY <1>0, StageKeeps
  <1>1. ASSUME NEW v \in Version, Quiet(v) PROVE Stage(obj'[w], obj[w])
    BY <1>1, <1>s, QuietStage, QuietStep DEF OnlyAt
  <1>2. ASSUME NEW v \in Version, Reconcile(v) \/ DeleteArtifact(v) \/ Prepare(v)
                                    \/ (Fetch(v) /\ ~Moved(v))
        PROVE  Stage(obj'[w], obj[w])
    <2>1. obj' = obj
      BY <1>2 DEF Reconcile, DeleteArtifact, Prepare, Fetch, api
    <2>2. QED
      BY <1>s, <2>1
  <1>3. ASSUME NEW v \in Version, AddFinalizer(v)
        PROVE  \/ obj'[w] = obj[w]
               \/ /\ w = v /\ ~Conflict(w) /\ storage' = storage
                  /\ obj'[w] = [obj[w] EXCEPT !.finalizer = TRUE]
    BY <1>0, <1>3 DEF AddFinalizer, Conflict
  <1>4. ASSUME NEW v \in Version, RemoveFinalizer(v)
        PROVE  obj'[w] = obj[w] \/ (w = v /\ ~Conflict(w) /\ obj'[w] = Absent)
    BY <1>0, <1>4 DEF RemoveFinalizer, Conflict
  <1>5. ASSUME NEW v \in Version, UpdateSpec(v) PROVE Stage(obj'[w], obj[w])
    <2>1. \/ obj'[w] = obj[w]
          \/ obj'[w] = [obj[w] EXCEPT !.fileName = local[w].fileName, !.config = local[w].config]
      <3>1. \/ obj' = obj
            \/ obj' = [obj EXCEPT ![v].fileName = local[v].fileName, ![v].config = local[v].config]
        BY <1>5 DEF UpdateSpec
      <3>2. CASE w = v
        BY <1>0, <3>1, <3>2
      <3>3. CASE w # v
        BY <1>0, <3>1, <3>3
      <3>4. QED
        BY <3>2, <3>3
    <2>2. Stage([obj[w] EXCEPT !.fileName = local[w].fileName, !.config = local[w].config], obj[w])
      BY <1>0, StageKeeps
    <2>3. QED
      BY <1>s, <2>1, <2>2
  <1>6. ASSUME NEW v \in Version, WriteStatus(v) PROVE Stage(obj'[w], obj[w])
    <2>1. \/ obj'[w] = obj[w]
          \/ obj'[w] = [WithScans(obj[w], local[w]) EXCEPT
                           !.synced = TRUE, !.checksum = local[w].archive, !.message = "ok"]
      BY <1>0, <1>6 DEF WriteStatus
    <2>2. Stage([WithScans(obj[w], local[w]) EXCEPT
                   !.synced = TRUE, !.checksum = local[w].archive, !.message = "ok"], obj[w])
      BY <1>0, StageWithScans
    <2>3. QED
      BY <1>s, <2>1, <2>2
  <1>7. ASSUME NEW v \in Version, CreateVersion(v)
        PROVE  obj'[w] = obj[w] \/ w = v
    BY <1>0, <1>7 DEF CreateVersion
  <1>8. ASSUME NEW v \in Version, DeleteVersion(v)
        PROVE  \/ obj'[w] = obj[w]
               \/ /\ w = v /\ storage' = storage /\ pc' = pc
                  /\ obj'[w] = IF obj[w].finalizer THEN [obj[w] EXCEPT !.deleting = TRUE] ELSE Absent
    BY <1>0, <1>8 DEF DeleteVersion
  <1>9. ASSUME NEW v \in Version, SetForceSync(v) PROVE Stage(obj'[w], obj[w])
    <2>1. obj'[w] = obj[w] \/ obj'[w] = [obj[w] EXCEPT !.forceSync = TRUE]
      BY <1>0, <1>9 DEF SetForceSync
    <2>2. QED
      BY <1>0, <1>s, <2>1, StageKeeps
  <1>10. Crash => obj' = obj
    BY DEF Crash, api
  <1>11. QED
    BY NextCases, <1>s, <1>1, <1>2, <1>3, <1>4, <1>5, <1>6, <1>7, <1>8, <1>9, <1>10

-----------------------------------------------------------------------------
\* The two invariants

\* How a worker comes to the steps of reconcileDeletion.
LEMMA DeletionSteps ==
  ASSUME IInv, Next, NEW w \in Version, pc'[w] \in {"deleteArtifact", "removeFinalizer"}
  PROVE  \/ pc'[w] = pc[w] /\ pc[w] \in {"deleteArtifact", "removeFinalizer"}
         \/ Reconcile(w) /\ pc'[w] = Branch(obj[w]) /\ obj' = obj
         \/ DeleteArtifact(w) /\ pc[w] = "deleteArtifact" /\ obj' = obj
  <1> USE DEF IInv, TypeOK, Typed
  <1>1. ASSUME NEW v \in Version, Quiet(v) PROVE pc'[w] = pc[w]
    BY <1>1, QuietStep DEF OnlyAt, Returns, Proceeds
  <1>2. ASSUME NEW v \in Version, Reconcile(v)
        PROVE  pc'[w] = pc[w] \/ (w = v /\ pc'[w] = Branch(obj[w]) /\ obj' = obj)
    BY <1>2 DEF Reconcile, Goto, api
  <1>3. ASSUME NEW v \in Version, DeleteArtifact(v)
        PROVE  pc'[w] = pc[w] \/ (w = v /\ pc[w] = "deleteArtifact" /\ obj' = obj)
    BY <1>3 DEF DeleteArtifact, Goto, api
  <1>4. ASSUME NEW v \in Version, AddFinalizer(v) \/ RemoveFinalizer(v) PROVE pc'[w] = pc[w]
    BY <1>4 DEF AddFinalizer, RemoveFinalizer, Requeue, Return
  <1>5. ASSUME NEW v \in Version, Prepare(v) \/ (Fetch(v) /\ ~Moved(v)) PROVE pc'[w] = pc[w]
    BY <1>5 DEF Prepare, Fetch, Goto
  <1>6. ASSUME NEW v \in Version, UpdateSpec(v) \/ WriteStatus(v) PROVE pc'[w] = pc[w]
    BY <1>6 DEF UpdateSpec, WriteStatus, Finish, Requeue, Return, Goto
  <1>7. ASSUME NEW v \in Version, CreateVersion(v) \/ DeleteVersion(v) \/ SetForceSync(v)
        PROVE  pc'[w] = pc[w]
    BY <1>7 DEF CreateVersion, DeleteVersion, SetForceSync
  <1>8. ~Crash
    BY DEF Crash
  <1> HIDE DEF IInv, TypeOK, Typed
  <1>9. QED
    BY NextCases, <1>1, <1>2, <1>3, <1>4, <1>5, <1>6, <1>7, <1>8

\* A reconcile is sent to clean up by an object that terminates.
LEMMA BranchDeleting ==
  ASSUME NEW o \in Object, Branch(o) \in {"deleteArtifact", "removeFinalizer"}
  PROVE  o.deleting
  BY ObjectFields DEF Branch

\* The stage of an object that is written at.
LEMMA StageWrites ==
  ASSUME NEW o \in Object
  PROVE  /\ LET n == [o EXCEPT !.finalizer = TRUE] IN
              n.finalizer /\ n.exists = o.exists /\ n.deleting = o.deleting
         /\ LET n == [o EXCEPT !.deleting = TRUE] IN
              n.deleting /\ n.exists = o.exists /\ n.finalizer = o.finalizer
         /\ ~Absent.deleting
  BY DEF Object, Absent

\* A new object neither terminates nor is protected.
LEMMA NewStage ==
  ASSUME TypeOK, NEW v \in Version, CreateVersion(v)
  PROVE  /\ ~obj[v].exists /\ obj'[v].exists /\ ~obj'[v].deleting /\ ~obj'[v].finalizer
         /\ obj'[v].checksum = Nil
         /\ obj'[v].fileName # Nil => storage'[obj'[v].fileName] = Nil
  <1>1. PICK f \in {Nil} \cup (IF IsProvider(v) THEN {} ELSE Generated), c \in {"given", "dual"} :
           obj' = [obj EXCEPT ![v] = NewVersion(f, c)]
    BY DEF CreateVersion
  <1>2. obj'[v] = NewVersion(f, c)
    BY <1>1 DEF TypeOK, Typed
  <1>3. f # Nil => storage[f] = Nil
    BY <1>1 DEF Generated, Unused
  <1>4. /\ NewVersion(f, c).exists /\ ~NewVersion(f, c).deleting /\ ~NewVersion(f, c).finalizer
        /\ NewVersion(f, c).checksum = Nil /\ NewVersion(f, c).fileName = f
    BY DEF NewVersion, Absent
  <1>5. ~obj[v].exists /\ storage' = storage
    BY DEF CreateVersion
  <1>6. QED
    BY <1>2, <1>3, <1>4, <1>5

\* Both invariants are kept.
LEMMA StagesInv ==
  ASSUME IInv, Terminating, Departing, [Next]_vars
  PROVE  Terminating' /\ Departing'
  <1>1. CASE UNCHANGED vars
    BY <1>1 DEF vars, Terminating, Departing
  <1>2. CASE Next
    <2>0. TypeOK /\ obj \in [Version -> Object]
      BY DEF IInv, TypeOK, Typed
    <2>1. ASSUME NEW w \in Version, obj'[w].deleting PROVE obj'[w].finalizer
      <3>1. CASE Stage(obj'[w], obj[w])
        BY <2>1, <3>1 DEF Stage, Terminating
      <3>2. CASE obj'[w] = [obj[w] EXCEPT !.finalizer = TRUE]
        BY <2>0, <3>2, StageWrites
      <3>3. CASE obj'[w] = Absent
        BY <2>0, <2>1, <3>3, StageWrites
      <3>4. CASE obj'[w] = [obj[w] EXCEPT !.deleting = TRUE] /\ obj[w].finalizer
        BY <2>0, <3>4, StageWrites
      <3>5. CASE CreateVersion(w)
        BY <2>0, <2>1, <3>5, NewStage
      <3>6. QED
        BY <1>2, <2>0, <3>1, <3>2, <3>3, <3>4, <3>5, StageStep
    <2>2. ASSUME NEW w \in Version, pc'[w] \in {"deleteArtifact", "removeFinalizer"}
          PROVE  obj'[w].deleting
      <3>1. CASE obj' = obj /\ pc[w] \in {"deleteArtifact", "removeFinalizer"}
        BY <3>1 DEF Departing
      <3>2. CASE Reconcile(w) /\ pc'[w] = Branch(obj[w]) /\ obj' = obj
        BY <2>0, <2>2, <3>2, BranchDeleting
      <3>3. CASE pc'[w] = pc[w] /\ pc[w] \in {"deleteArtifact", "removeFinalizer"}
        <4>1. obj[w].exists /\ obj[w].finalizer /\ obj[w].deleting
          BY <3>3 DEF IInv, Owned, Working, Labels, CallPoints, Departing
        <4>2. CASE Stage(obj'[w], obj[w])
          BY <4>1, <4>2 DEF Stage
        <4>3. ~AddFinalizer(w)
          BY <3>3 DEF AddFinalizer
        <4>4. ~RemoveFinalizer(w)
          <5>1. RemoveFinalizer(w) => pc'[w] = "idle"
            BY DEF RemoveFinalizer, Return, IInv, TypeOK, Typed
          <5>2. QED
            BY <2>2, <5>1
        <4>5. ~DeleteVersion(w) /\ ~CreateVersion(w)
          BY <4>1 DEF DeleteVersion, CreateVersion
        <4>6. QED
          BY <1>2, <2>0, <4>2, <4>3, <4>4, <4>5, StageStep
      <3>4. QED
        BY <1>2, <2>2, <3>1, <3>2, <3>3, DeletionSteps
    <2>3. QED
      BY <2>1, <2>2 DEF Terminating, Departing
  <1>3. QED
    BY <1>1, <1>2

-----------------------------------------------------------------------------
\* The refinement

\* Every step is a step of the life of each artifact.
LEMMA LifeStep ==
  ASSUME IInv, IInv', Terminating, Terminating', Departing, Next, NEW w \in Version
  PROVE  LET p == Phase(obj[w])
             q == Phase(obj'[w])
             s == StoredUnder(obj[w].fileName)
             t == StoredUnder(obj[w].fileName)'
             c == obj[w].checksum
             d == obj'[w].checksum
         IN  \/ p = "absent" /\ q = "free" /\ t = Nil /\ d = Nil
             \/ p = "free" /\ q = "held" /\ t = s /\ d = c
             \/ p = "held" /\ q = "leaving" /\ t = s /\ d = c
             \/ p \in {"free", "leaving"} /\ q = "absent" /\ s = Nil /\ t = Nil /\ d = Nil
             \/ /\ p \in {"held", "leaving"} /\ q = p /\ t \in Contents
                /\ d = c \/ (d \in Checksum /\ (w \in Immutable => c = Nil))
             \/ q = p /\ t = s /\ d = c
  <1> DEFINE s == StoredUnder(obj[w].fileName)
             t == StoredUnder(obj[w].fileName)'
  <1>0. TypeOK /\ obj \in [Version -> Object] /\ obj' \in [Version -> Object]
    BY DEF IInv, TypeOK, Typed
  <1>t. s \in Contents /\ t \in Contents
    <2>1. /\ storage \in [File -> Contents] /\ storage' \in [File -> Contents]
          /\ obj[w].fileName \in File \cup {Nil} /\ obj'[w].fileName \in File \cup {Nil}
      <3>1. Typed /\ Typed'
        BY DEF IInv, TypeOK
      <3>2. storage \in [File -> Contents] /\ storage' \in [File -> Contents]
        BY <3>1 DEF Typed
      <3>3. obj[w] \in Object /\ obj'[w] \in Object
        BY <1>0
      <3>4. obj[w].fileName \in File \cup {Nil} /\ obj'[w].fileName \in File \cup {Nil}
        BY <3>3, ObjectFields DEF FileOrNil
      <3>5. QED
        BY <3>2, <3>4
    <2>2. Nil \in Contents
      BY DEF Contents
    <2>3. QED
      BY <2>1, <2>2 DEF StoredUnder
  <1>f. /\ obj[w].exists \in BOOLEAN /\ obj[w].finalizer \in BOOLEAN /\ obj[w].deleting \in BOOLEAN
        /\ obj'[w].exists \in BOOLEAN /\ obj'[w].finalizer \in BOOLEAN /\ obj'[w].deleting \in BOOLEAN
    BY <1>0, ObjectFields
  <1>u. /\ obj[w].exists /\ ~obj[w].finalizer => s = Nil
        /\ obj'[w].exists /\ ~obj'[w].finalizer => t = Nil
    BY DEF StoredUnder, IInv, ArtifactProtected
  <1>w. WriteStatus(w) => obj[w].exists /\ obj[w].finalizer /\ obj'[w].exists
    <2>1. WriteStatus(w) => pc[w] = "writeStatus"
      BY DEF WriteStatus
    <2>2. pc[w] = "writeStatus" => obj[w].exists /\ obj[w].finalizer
      BY DEF IInv, Owned, Working, Labels, CallPoints
    <2>3. Typed'
      BY DEF IInv, TypeOK
    <2>4. QED
      BY <2>1, <2>2, <2>3, WriteStatusInv
  <1>1. CASE ~obj[w].exists /\ ~obj'[w].exists
    <2>1. obj[w] = Absent /\ obj'[w] = Absent
      BY <1>1 DEF IInv, TypeOK, Gone
    <2>2. s = Nil /\ t = Nil
      BY <2>1, AbsentFields DEF StoredUnder
    <2>3. QED
      BY <2>1, <2>2
  <1>2. CASE ~obj[w].exists /\ obj'[w].exists
    <2>1. CreateVersion(w)
      BY <1>2, <1>w, ObjectStep, AbsentFields
    <2>2. t = Nil /\ Phase(obj'[w]) = "free" /\ obj'[w].checksum = Nil
      BY <1>0, <2>1, NewStage DEF StoredUnder, Phase
    <2>3. QED
      BY <1>2, <2>2 DEF Phase
  <1>3. CASE obj[w].exists /\ ~obj'[w].exists
    <2>1. obj'[w] = Absent
      BY <1>3 DEF IInv, TypeOK, Gone
    <2>2. t = Nil /\ Phase(obj'[w]) = "absent" /\ obj'[w].checksum = Nil
      BY <2>1, AbsentFields DEF StoredUnder, Phase
    <2>3. CASE RemoveFinalizer(w)
      <3>1. pc[w] = "removeFinalizer"
        BY <2>3 DEF RemoveFinalizer
      <3>2. s = Nil /\ obj[w].deleting
        BY <3>1 DEF StoredUnder, IInv, Cleaned, Departing
      <3>3. QED
        BY <1>3, <2>2, <3>2 DEF Phase
    <2>4. CASE DeleteVersion(w) /\ ~obj[w].finalizer
      <3>1. s = Nil /\ Phase(obj[w]) = "free"
        BY <1>3, <1>u, <2>4 DEF DeleteVersion, Phase
      <3>2. QED
        BY <2>2, <3>1
    <2>5. QED
      BY <1>3, <1>w, <1>f, <2>3, <2>4, ObjectStep DEF CreateVersion
  <1>4. CASE obj[w].exists /\ obj'[w].exists
    <2>0. ~CreateVersion(w) /\ obj'[w] # Absent
      BY <1>4, AbsentFields DEF CreateVersion
    <2>1. CASE Stage(obj'[w], obj[w]) /\ obj[w].finalizer
      <3>1. Phase(obj'[w]) = Phase(obj[w]) /\ Phase(obj[w]) \in {"held", "leaving"}
        BY <1>4, <2>1 DEF Stage, Phase
      <3>2. \/ obj'[w].checksum = obj[w].checksum
            \/ obj'[w].checksum \in Checksum /\ (w \in Immutable => obj[w].checksum = Nil)
        <4>1. CASE obj'[w].checksum = obj[w].checksum
          BY <4>1
        <4>2. CASE WriteStatus(w)
          <5>1. pc[w] = "writeStatus"
            BY <4>2 DEF WriteStatus
          <5>2. local[w].archive \in Checksum
            BY <5>1 DEF IInv, Archived, Fetched
          <5>3. obj'[w] = [WithScans(obj[w], local[w]) EXCEPT
                              !.synced = TRUE, !.checksum = local[w].archive, !.message = "ok"]
            BY <1>0, <1>4, <4>2 DEF WriteStatus
          <5>4. WithScans(obj[w], local[w]) \in Object
            BY WithScansType DEF IInv, TypeOK, Typed
          <5>5. obj'[w].checksum = local[w].archive
            BY <5>3, <5>4, ObjectSets
          <5>6. w \in Immutable /\ obj[w].checksum # Nil => obj'[w].checksum = obj[w].checksum
            BY <1>4, ImmutableStep
          <5>7. QED
            BY <5>2, <5>5, <5>6
        <4>3. QED
          BY <2>0, <4>1, <4>2, ObjectStep
      <3>3. QED
        BY <1>t, <3>1, <3>2
    <2>2. CASE Stage(obj'[w], obj[w]) /\ ~obj[w].finalizer
      <3>1. Phase(obj'[w]) = Phase(obj[w]) /\ s = Nil /\ t = Nil
        BY <1>4, <1>u, <2>2 DEF Stage, Phase
      <3>2. obj'[w].checksum = obj[w].checksum
        BY <1>w, <2>0, <2>2, ObjectStep
      <3>3. QED
        BY <3>1, <3>2
    <2>3. CASE obj'[w] = [obj[w] EXCEPT !.finalizer = TRUE] /\ storage' = storage
      <3>1. /\ obj'[w].finalizer /\ obj'[w].deleting = obj[w].deleting
            /\ obj'[w].fileName = obj[w].fileName /\ obj'[w].checksum = obj[w].checksum
        BY <1>0, <2>3, StageWrites, ObjectSets
      <3>2. t = s
        BY <2>3, <3>1 DEF StoredUnder
      <3>3. \/ Phase(obj'[w]) = Phase(obj[w])
            \/ Phase(obj[w]) = "free" /\ Phase(obj'[w]) = "held"
        BY <1>4, <1>f, <3>1 DEF Phase, Terminating
      <3>4. QED
        BY <3>1, <3>2, <3>3
    <2>4. CASE /\ obj'[w] = [obj[w] EXCEPT !.deleting = TRUE] /\ storage' = storage
               /\ obj[w].finalizer
      <3>1. obj'[w].deleting /\ Same(obj'[w], obj[w])
        <4>1. obj[w] \in Object
          BY <1>0
        <4>2. Same([obj[w] EXCEPT !.deleting = TRUE], obj[w])
          BY <4>1, ObjectKeeps
        <4>3. obj'[w].deleting
          BY <2>4, <4>1, StageWrites
        <4>4. QED
          BY <2>4, <4>2, <4>3
      <3>2. t = s /\ obj'[w].checksum = obj[w].checksum
        BY <2>4, <3>1 DEF StoredUnder, Same
      <3>3. Phase(obj'[w]) = "leaving" /\ Phase(obj[w]) \in {"held", "leaving"}
        BY <1>4, <2>4, <3>1 DEF Phase
      <3>4. QED
        BY <3>2, <3>3
    <2>5. QED
      BY <1>0, <1>f, <2>0, <2>1, <2>2, <2>3, <2>4, StageStep
  <1>5. QED
    BY <1>1, <1>2, <1>3, <1>4, <1>f

\* The Version controller implements the life of an artifact: for every number of
\* Versions, workers, crashes, failed calls and edits, what is stored under the
\* name of a Version changes only while its finalizer is there, a Version goes
\* away only after it was deleted and its file removed, and the checksum of an
\* immutable one is final.
THEOREM Refinement == Spec => ImplementsLifecycle
  <1>1. Init => Terminating /\ Departing
    <2>1. Init => \A v \in Version : obj[v] = Absent /\ pc[v] = "idle"
      BY DEF Init
    <2>2. ~Absent.deleting
      BY DEF Absent
    <2>3. QED
      BY <2>1, <2>2 DEF Terminating, Departing
  <1>2. Init => Artifact!LifecycleInit
    <2> SUFFICES ASSUME Init PROVE Artifact!LifecycleInit
      OBVIOUS
    <2>1. Phase(Absent) = "absent" /\ StoredUnder(Absent.fileName) = Nil /\ Absent.checksum = Nil
      BY AbsentFields DEF Phase, StoredUnder
    <2>2. \A v \in Version : obj[v] = Absent
      BY DEF Init
    <2>3. QED
      BY <2>1, <2>2 DEF Artifact!LifecycleInit
  <1>3. IInv /\ Terminating /\ Departing /\ [Next]_vars => Terminating' /\ Departing'
    BY StagesInv
  <1>4. /\ IInv /\ IInv' /\ Terminating /\ Terminating' /\ Departing /\ [Next]_vars
        => [Artifact!LifecycleNext]_Artifact!lifecycle
    <2> SUFFICES ASSUME IInv, IInv', Terminating, Terminating', Departing, [Next]_vars
                 PROVE  [Artifact!LifecycleNext]_Artifact!lifecycle
      OBVIOUS
    <2>1. CASE UNCHANGED vars
      BY <2>1 DEF vars, Artifact!lifecycle, StoredUnder
    <2>2. CASE Next
      <3>1. ASSUME NEW w \in Version
            PROVE  \/ Artifact!Appears(w) \/ Artifact!Held(w) \/ Artifact!Leaves(w)
                   \/ Artifact!Vanishes(w) \/ Artifact!Works(w) \/ Artifact!Rests(w)
        BY <2>2, LifeStep DEF Artifact!Appears, Artifact!Held, Artifact!Leaves, Artifact!Vanishes,
           Artifact!Works, Artifact!Rests, Artifact!Same
      <3>2. QED
        BY <3>1 DEF Artifact!LifecycleNext
    <2>3. QED
      BY <2>1, <2>2
  <1>5. QED
    BY Invariance, <1>1, <1>2, <1>3, <1>4, PTL DEF Spec, ImplementsLifecycle, Artifact!LifecycleSpec

-----------------------------------------------------------------------------
\* What the steps do to the world

\* An event of the environment uses up its budget and no other.
LEMMA SpendStep ==
  ASSUME Typed, NEW k \in EventKind, Spend(k)
  PROVE  /\ budget'[k] = budget[k] - 1
         /\ \A j \in EventKind \ {k} : budget'[j] = budget[j]
         /\ \A j \in EventKind : budget'[j] <= budget[j]
  BY DEF Typed, Spend

\* The steps of a worker spend nothing but the two budgets of a scan.
LEMMA WorkerBudget ==
  ASSUME Typed, NEW v \in Version, WorkerStep(v)
  PROVE  budget' = budget \/ Spend("listFail") \/ Spend("scanFail")
  <1> USE DEF world
  <1>1. CASE AddFinalizer(v) \/ DeleteArtifact(v) \/ RemoveFinalizer(v) \/ WriteTerminal(v) \/ Prepare(v)
    BY <1>1 DEF AddFinalizer, DeleteArtifact, RemoveFinalizer, WriteTerminal, Prepare
  <1>2. CASE FastPath(v) \/ Fetch(v) \/ VerifyStored(v) \/ FirstPut(v) \/ Put(v) \/ UpdateSpec(v)
    BY <1>2 DEF FastPath, Fetch, VerifyStored, FirstPut, Put, UpdateSpec
  <1>3. CASE ResolvePolicy(v)
    BY <1>3 DEF ResolvePolicy
  <1>4. CASE BinaryScan(v) \/ SourceScan(v)
    BY <1>4 DEF BinaryScan, SourceScan
  <1>5. CASE SourceDedup(v) \/ PersistScanViolation(v) \/ WriteStatus(v) \/ ResetForceSync(v) \/ ApplyStored(v)
    BY <1>5 DEF SourceDedup, PersistScanViolation, WriteStatus, ResetForceSync, ApplyStored
  <1>6. QED
    BY <1>1, <1>2, <1>3, <1>4, <1>5 DEF WorkerStep

\* Which budget each kind of step uses.
LEMMA BudgetStep ==
  ASSUME Typed, Next
  PROVE  \/ budget' = budget
         \/ Crash /\ Spend("crash")
         \/ \E v \in Version : Failure(v) /\ Spend("fault")
         \/ \E f \in File : LoseFile(f) /\ Spend("loss")
         \/ \E v \in Version : MoveUpstream(v) /\ Spend("upstream")
         \/ \E k \in EventKind \ {"crash", "fault", "loss", "upstream"} : Spend(k)
  <1> USE DEF EventKind
  <1>1. ASSUME NEW v \in Version, WorkerStep(v)
        PROVE  budget' = budget \/ \E k \in EventKind \ {"crash", "fault", "loss", "upstream"} : Spend(k)
    BY <1>1, WorkerBudget
  <1>2. ASSUME NEW v \in Version,
               Reconcile(v) \/ AcquireDownload(v) \/ AcquireScan(v) \/ TimerFires(v)
        PROVE  budget' = budget
    BY <1>2 DEF Reconcile, AcquireDownload, AcquireScan, TimerFires, world
  <1>3. ASSUME NEW v \in Version, Failure(v) PROVE Spend("fault")
    BY <1>3 DEF Failure, FastPathFails, FetchFails, CallFails
  <1>4. ASSUME NEW v \in Version, CreateVersion(v) \/ DeleteVersion(v) \/ SetForceSync(v)
        PROVE  \E k \in EventKind \ {"crash", "fault", "loss", "upstream"} : Spend(k)
    BY <1>4 DEF CreateVersion, DeleteVersion, SetForceSync
  <1>5. ASSUME NEW v \in Version, MoveUpstream(v) PROVE Spend("upstream")
    BY <1>5 DEF MoveUpstream
  <1>6. ASSUME NEW f \in File, LoseFile(f) PROVE Spend("loss")
    BY <1>6 DEF LoseFile
  <1>7. CASE EditPolicies
    BY <1>7 DEF EditPolicies
  <1>8. CASE Tick \/ Restart
    BY <1>8 DEF Tick, Restart, world
  <1>9. Crash => Spend("crash")
    BY DEF Crash
  <1>10. QED
    BY <1>1, <1>2, <1>3, <1>4, <1>5, <1>6, <1>7, <1>8, <1>9 DEF Next, Controller, Operator

\* No budget grows.
LEMMA BudgetShrinks ==
  ASSUME Typed, Next, NEW k \in EventKind
  PROVE  budget'[k] <= budget[k] /\ budget[k] \in Nat /\ budget'[k] \in Int
  <1>1. budget' = budget \/ \E j \in EventKind : Spend(j)
    BY BudgetStep DEF EventKind
  <1>2. QED
    BY <1>1, SpendStep DEF Typed, Spend

\* The upstream moves a tag for a price.
LEMMA UpstreamStep ==
  ASSUME Typed, Next
  PROVE  upstream' = upstream \/ budget'["upstream"] < budget["upstream"]
  <1>1. ASSUME NEW v \in Version, WorkerStep(v) PROVE upstream' = upstream
    <2> USE DEF world
    <2>1. CASE AddFinalizer(v) \/ DeleteArtifact(v) \/ RemoveFinalizer(v) \/ WriteTerminal(v) \/ Prepare(v)
      BY <2>1 DEF AddFinalizer, DeleteArtifact, RemoveFinalizer, WriteTerminal, Prepare
    <2>2. CASE FastPath(v) \/ Fetch(v) \/ VerifyStored(v) \/ FirstPut(v) \/ Put(v) \/ UpdateSpec(v)
      BY <2>2 DEF FastPath, Fetch, VerifyStored, FirstPut, Put, UpdateSpec
    <2>3. CASE ResolvePolicy(v) \/ BinaryScan(v) \/ SourceScan(v)
      BY <2>3 DEF ResolvePolicy, BinaryScan, SourceScan
    <2>4. CASE SourceDedup(v) \/ PersistScanViolation(v) \/ WriteStatus(v) \/ ResetForceSync(v) \/ ApplyStored(v)
      BY <2>4 DEF SourceDedup, PersistScanViolation, WriteStatus, ResetForceSync, ApplyStored
    <2>5. QED
      BY <1>1, <2>1, <2>2, <2>3, <2>4 DEF WorkerStep
  <1>2. ASSUME NEW v \in Version, Controller(v) PROVE upstream' = upstream
    BY <1>1, <1>2 DEF Controller, Failure, Reconcile, AcquireDownload, AcquireScan, TimerFires,
       FastPathFails, FetchFails, CallFails, world
  <1>3. ASSUME NEW v \in Version, CreateVersion(v) \/ DeleteVersion(v) \/ SetForceSync(v)
        PROVE  upstream' = upstream
    BY <1>3 DEF CreateVersion, DeleteVersion, SetForceSync
  <1>4. ASSUME NEW v \in Version, MoveUpstream(v) PROVE budget'["upstream"] < budget["upstream"]
    BY <1>4, SpendStep DEF MoveUpstream, EventKind, Typed
  <1>5. ASSUME (\E f \in File : LoseFile(f)) \/ EditPolicies \/ Tick \/ Crash \/ Restart
        PROVE  upstream' = upstream
    BY <1>5 DEF LoseFile, EditPolicies, Tick, Crash, Restart, world
  <1>6. QED
    BY <1>2, <1>3, <1>4, <1>5 DEF Next, Operator

\* Which steps of the controller touch a file.
LEMMA ControllerStorage ==
  ASSUME Typed, (\E v \in Version : Controller(v)) \/ Crash \/ Restart, NEW f \in File
  PROVE  \/ storage'[f] = storage[f]
         \/ \E v \in Version : DeleteArtifact(v) /\ local[v].version.fileName = f
         \/ \E v \in Version : /\ pc[v] \in {"firstPut", "put"} /\ local[v].fileName = f
                               /\ FirstPut(v) \/ Put(v) \/ CallFails(v) \/ Crash
  <1> USE DEF Typed
  <1>1. ASSUME NEW v \in Version, WorkerStep(v)
        PROVE  storage' = storage \/ DeleteArtifact(v) \/ FirstPut(v) \/ Put(v)
    <2>1. CASE AddFinalizer(v) \/ RemoveFinalizer(v) \/ WriteTerminal(v) \/ Prepare(v) \/ FastPath(v)
      BY <2>1 DEF AddFinalizer, RemoveFinalizer, WriteTerminal, Prepare, FastPath
    <2>2. CASE Fetch(v) \/ VerifyStored(v) \/ UpdateSpec(v) \/ ResolvePolicy(v) \/ SourceDedup(v)
      BY <2>2 DEF Fetch, VerifyStored, UpdateSpec, ResolvePolicy, SourceDedup
    <2>3. CASE BinaryScan(v) \/ SourceScan(v)
      BY <2>3 DEF BinaryScan, SourceScan
    <2>4. CASE PersistScanViolation(v) \/ WriteStatus(v) \/ ResetForceSync(v) \/ ApplyStored(v)
      BY <2>4 DEF PersistScanViolation, WriteStatus, ResetForceSync, ApplyStored
    <2>5. QED
      BY <1>1, <2>1, <2>2, <2>3, <2>4 DEF WorkerStep
  <1>2. ASSUME NEW v \in Version, Controller(v)
        PROVE  storage' = storage \/ DeleteArtifact(v) \/ FirstPut(v) \/ Put(v) \/ CallFails(v)
    BY <1>1, <1>2 DEF Controller, Failure, Reconcile, AcquireDownload, AcquireScan, TimerFires,
       FastPathFails, FetchFails
  <1>3. ASSUME NEW v \in Version, DeleteArtifact(v)
        PROVE  storage'[f] = storage[f] \/ local[v].version.fileName = f
    BY <1>3 DEF DeleteArtifact
  <1>4. ASSUME NEW v \in Version, FirstPut(v) \/ Put(v)
        PROVE  \/ storage'[f] = storage[f]
               \/ pc[v] \in {"firstPut", "put"} /\ local[v].fileName = f
    BY <1>4 DEF FirstPut, Put, Upload
  <1>5. ASSUME NEW S \in SUBSET Version, CutShort(Writing(S))
        PROVE  \/ storage'[f] = storage[f]
               \/ \E v \in S : pc[v] \in {"firstPut", "put"} /\ local[v].fileName = f
    BY <1>5 DEF CutShort, Writing
  <1>6. ASSUME NEW v \in Version, CallFails(v)
        PROVE  \/ storage'[f] = storage[f]
               \/ pc[v] \in {"firstPut", "put"} /\ local[v].fileName = f
    <2>1. CutShort(Writing({v}))
      BY <1>6 DEF CallFails
    <2>2. QED
      BY <2>1, <1>5
  <1>7. CASE Crash
    <2>1. CutShort(Writing(Version))
      BY <1>7 DEF Crash
    <2>2. QED
      BY <1>7, <2>1, <1>5
  <1>8. Restart => storage' = storage
    BY DEF Restart
  <1> HIDE DEF Typed
  <1>9. QED
    BY <1>2, <1>3, <1>4, <1>6, <1>7, <1>8

\* Which steps touch a file.
LEMMA StorageStep ==
  ASSUME Typed, Next, NEW f \in File
  PROVE  \/ storage'[f] = storage[f]
         \/ \E v \in Version : DeleteArtifact(v) /\ local[v].version.fileName = f
         \/ \E v \in Version : /\ pc[v] \in {"firstPut", "put"} /\ local[v].fileName = f
                               /\ FirstPut(v) \/ Put(v) \/ CallFails(v) \/ Crash
         \/ LoseFile(f)
  <1>1. ASSUME NEW g \in File, LoseFile(g) PROVE storage'[f] = storage[f] \/ g = f
    BY <1>1 DEF LoseFile, Typed
  <1>2. ASSUME NEW v \in Version, Operator(v) PROVE storage' = storage
    BY <1>2 DEF Operator, CreateVersion, DeleteVersion, SetForceSync, MoveUpstream
  <1>3. EditPolicies \/ Tick => storage' = storage
    BY DEF EditPolicies, Tick
  <1>4. QED
    BY <1>1, <1>2, <1>3, ControllerStorage DEF Next

\* The file of a Version changes by its own worker, or by a loss.
LEMMA FileStep ==
  ASSUME IInv, Next, NEW w \in Version, NEW f \in Names(w)
  PROVE  \/ storage'[f] = storage[f]
         \/ budget'["loss"] < budget["loss"] /\ storage'[f] = Nil
         \/ DeleteArtifact(w)
         \/ /\ pc[w] \in {"firstPut", "put"} /\ local[w].fileName = f
            /\ FirstPut(w) \/ Put(w) \/ CallFails(w) \/ Crash
  <1>1. Typed /\ f \in File
    <2>1. Typed
      BY DEF IInv, TypeOK
    <2>2. obj[w] \in Object /\ local[w] \in Worker /\ refs[w] \in FileOrNil
      BY <2>1 DEF Typed
    <2>3. QED
      BY <2>1, <2>2, ObjectFields, WorkerFields DEF Names
  <1>2. ASSUME NEW v \in Version, f \in Names(v) PROVE v = w
    BY <1>2 DEF IInv, NamesDisjoint
  <1>3. ASSUME NEW v \in Version, DeleteArtifact(v), local[v].version.fileName = f
        PROVE  DeleteArtifact(w)
    <2>1. f \in Names(v)
      BY <1>1, <1>3 DEF DeleteArtifact, IInv, Fresh, Names
    <2>2. QED
      BY <1>2, <1>3, <2>1
  <1>4. ASSUME NEW v \in Version, local[v].fileName = f PROVE v = w
    <2>1. f \in Names(v)
      BY <1>1, <1>4 DEF Names
    <2>2. QED
      BY <1>2, <2>1
  <1>5. LoseFile(f) => budget'["loss"] < budget["loss"] /\ storage'[f] = Nil
    BY <1>1, SpendStep DEF LoseFile, EventKind, Typed
  <1>6. QED
    BY <1>1, <1>3, <1>4, <1>5, StorageStep

-----------------------------------------------------------------------------
\* The inductive step for one Version

\* The part of the invariant that is about one Version.
Good(v) ==
    /\ NameKept(v) /\ SyncedHasFile(v) /\ UploadSafe(v) /\ NotYetStored(v)
    /\ obj[v].exists /\ obj[v].synced /\ ~obj[v].deleting /\ Undisturbed(v) => Servable(v)

\* What an undisturbed future says about the present.
LEMMA Undisturbance ==
  ASSUME IInv, WithinLimits, Next, NEW w \in Version
  PROVE  /\ Undisturbed(w)' => Undisturbed(w) /\ ~(budget'["loss"] < budget["loss"])
         /\ budget'["upstream"] = Budget["upstream"] =>
              budget["upstream"] = Budget["upstream"] /\ upstream' = upstream
  <1>1. /\ budget'["loss"] <= budget["loss"] /\ budget["loss"] <= Budget["loss"]
        /\ budget'["upstream"] <= budget["upstream"] /\ budget["upstream"] <= Budget["upstream"]
        /\ budget["loss"] \in Nat /\ budget["upstream"] \in Nat
        /\ budget'["loss"] \in Int /\ budget'["upstream"] \in Int
        /\ Budget["loss"] \in Nat /\ Budget["upstream"] \in Nat
    BY BudgetShrinks DEF WithinLimits, EventKind, IInv, TypeOK
  <1>2. upstream' = upstream \/ budget'["upstream"] < budget["upstream"]
    BY UpstreamStep DEF IInv, TypeOK
  <1>3. QED
    BY <1>1, <1>2 DEF Undisturbed

\* The file of a synced Version, and the archive a worker has stored, are not
\* touched while nothing disturbs them.
LEMMA FileKept ==
  ASSUME IInv, SafetyInv, Next, NEW w \in Version, Undisturbed(w)'
  PROVE  /\ obj[w].exists /\ obj[w].synced /\ ~obj[w].deleting
              => Servable(w) /\ storage'[obj[w].fileName] = obj[w].checksum
         /\ pc[w] \in Recorded \cup {"updateSpec"}
              => storage'[local[w].fileName] = local[w].archive
  <1>1. Undisturbed(w) /\ ~(budget'["loss"] < budget["loss"])
    BY Undisturbance DEF SafetyInv
  <1>2. ASSUME obj[w].exists, obj[w].synced, ~obj[w].deleting
        PROVE  Servable(w) /\ storage'[obj[w].fileName] = obj[w].checksum
    <2>1. Servable(w)
      BY <1>1, <1>2 DEF SafetyInv, SyncedIsStored
    <2>2. obj[w].fileName \in Names(w)
      BY <2>1 DEF Names, Servable
    <2>3. ~DeleteArtifact(w)
      BY <1>2 DEF DeleteArtifact, SafetyInv, Departing
    <2>4. pc[w] \notin {"firstPut", "put"}
      BY <1>1, <1>2 DEF SafetyInv, UploadSafe
    <2>5. QED
      BY <1>1, <2>1, <2>2, <2>3, <2>4, FileStep DEF Servable
  <1>3. ASSUME pc[w] \in Recorded \cup {"updateSpec"}
        PROVE  storage'[local[w].fileName] = local[w].archive
    <2>1. storage[local[w].fileName] = local[w].archive /\ local[w].fileName # Nil
      BY <1>1, <1>3 DEF SafetyInv, UploadSafe, NameKept
    <2>2. local[w].fileName \in Names(w)
      BY <2>1 DEF Names
    <2>3. pc[w] \notin {"deleteArtifact", "firstPut", "put"}
      BY <1>3 DEF Recorded, Unnamed, Naming
    <2>4. QED
      BY <1>1, <2>1, <2>2, <2>3, FileStep DEF DeleteArtifact
  <1>4. QED
    BY <1>2, <1>3

\* A reconcile that returns, and leaves the object as it was, gone or not
\* synced any more.
LEMMA GoodReturns ==
  ASSUME IInv, SafetyInv, Next, NEW w \in Version, Returns(w), refs'[w] = refs[w],
         \/ obj'[w] = Absent
         \/ /\ obj'[w].exists = obj[w].exists /\ obj'[w].deleting = obj[w].deleting
            /\ obj'[w].fileName = obj[w].fileName /\ obj'[w].checksum = obj[w].checksum
            /\ obj'[w].synced => obj[w].synced
  PROVE  Good(w)'
  <1>1. pc'[w] = "idle" /\ local'[w].fileName = Nil
    BY IdleName DEF Returns
  <1>2. "idle" \notin Naming /\ "idle" \notin Recorded /\ "idle" \notin Fetched
    BY DEF Naming, Recorded, Unnamed, Fetched
  <1>3. ~Absent.exists /\ ~Absent.synced /\ Absent.checksum = Nil
    BY DEF Absent
  <1>4. NameKept(w) /\ SyncedHasFile(w) /\ UploadSafe(w)
    BY DEF SafetyInv
  <1>5. NameKept(w)'
    BY <1>1, <1>2, <1>3, <1>4 DEF NameKept
  <1>6. SyncedHasFile(w)'
    BY <1>1, <1>3, <1>4 DEF SyncedHasFile
  <1>7. UploadSafe(w)'
    <2>1. budget'["upstream"] = Budget["upstream"] => obj'[w].checksum \in {Nil, upstream'[w]}
      BY <1>3, <1>4, Undisturbance DEF SafetyInv, UploadSafe
    <2>2. QED
      BY <1>1, <1>2, <2>1 DEF UploadSafe
  <1>8. NotYetStored(w)'
    BY <1>1, <1>2 DEF NotYetStored
  <1>9. (obj[w].exists /\ obj[w].synced /\ ~obj[w].deleting /\ Undisturbed(w) => Servable(w))'
    BY <1>3, FileKept DEF Servable
  <1>10. QED
    BY <1>5, <1>6, <1>7, <1>8, <1>9 DEF Good

\* The worker of w and what it remembers of the name, the archive and the
\* object stay, and so does the object.
Holds(w) ==
    /\ obj'[w] = obj[w] /\ refs'[w] = refs[w]
    /\ local'[w].version = local[w].version
    /\ local'[w].fileName = local[w].fileName
    /\ local'[w].archive = local[w].archive

\* A step of somebody else.
LEMMA GoodStays ==
  ASSUME IInv, SafetyInv, Next, NEW w \in Version, Holds(w), pc'[w] = pc[w]
  PROVE  Good(w)'
  <1> USE DEF Holds
  <1>1. NameKept(w) /\ SyncedHasFile(w) /\ UploadSafe(w) /\ NotYetStored(w)
    BY DEF SafetyInv
  <1>2. NameKept(w)'
    BY <1>1 DEF NameKept
  <1>3. SyncedHasFile(w)'
    BY <1>1 DEF SyncedHasFile
  <1>4. UploadSafe(w)'
    <2>1. ASSUME budget'["upstream"] = Budget["upstream"]
          PROVE  /\ obj'[w].checksum \in {Nil, upstream'[w]}
                 /\ pc'[w] \in Fetched => local'[w].archive = upstream'[w]
      BY <1>1, <2>1, Undisturbance DEF SafetyInv, UploadSafe
    <2>2. Undisturbed(w)' => Undisturbed(w)
      BY Undisturbance DEF SafetyInv
    <2>3. QED
      BY <1>1, <2>1, <2>2, FileKept DEF UploadSafe
  <1>5. NotYetStored(w)'
    <2> SUFFICES ASSUME pc[w] \in Naming \ {"put", "updateSpec"},
                        obj[w].fileName = Nil, local[w].fileName # Nil
                 PROVE  storage'[local[w].fileName] = Nil
      BY DEF NotYetStored
    <2>1. storage[local[w].fileName] = Nil /\ local[w].fileName \in Names(w)
      BY <1>1 DEF NotYetStored, Names
    <2>2. pc \in [Version -> Labels]
      BY DEF IInv, TypeOK, Typed
    <2>3. ~DeleteArtifact(w)
      BY DEF DeleteArtifact, Naming
    <2>4. ~(FirstPut(w) \/ Put(w) \/ CallFails(w) \/ Crash)
      BY <2>2 DEF FirstPut, Put, CallFails, Crash, Goto, Requeue, Return, Naming
    <2>5. QED
      BY <2>1, <2>3, <2>4, FileStep
  <1>6. (obj[w].exists /\ obj[w].synced /\ ~obj[w].deleting /\ Undisturbed(w) => Servable(w))'
    BY FileKept DEF Servable
  <1>7. QED
    BY <1>2, <1>3, <1>4, <1>5, <1>6 DEF Good

\* The places a worker may go to with what it holds.
Moves(w) ==
    \/ pc[w] = "fastPath" /\ pc'[w] = "download"
    \/ pc[w] = "fastPath" /\ pc'[w] = "resolveStored" /\ local[w].version.synced
    \/ pc[w] = "download" /\ pc'[w] = "fetch"
    \/ pc[w] = "resolveStored" /\ pc'[w] = "applyStored"
    \/ pc[w] \in Recorded /\ pc'[w] \in Recorded /\ (pc'[w] \in Fetched => pc[w] \in Fetched)

\* A worker that goes on and stores nothing.
LEMMA GoodMoves ==
  ASSUME IInv, SafetyInv, Next, NEW w \in Version, Holds(w), Moves(w)
  PROVE  Good(w)'
  <1> USE DEF Holds, Moves
  <1>1. NameKept(w) /\ SyncedHasFile(w) /\ UploadSafe(w) /\ NotYetStored(w)
    BY DEF SafetyInv
  <1>l. /\ pc[w] \in Recorded => pc[w] \notin Unnamed \cup Naming
        /\ pc'[w] \in Recorded => pc'[w] \notin Unnamed \cup Naming
    BY DEF Recorded
  <1>2. NameKept(w)'
    BY <1>1, <1>l DEF NameKept, Naming, Unnamed, Recorded
  <1>3. SyncedHasFile(w)'
    BY <1>1, <1>l DEF SyncedHasFile, Unnamed, Naming
  <1>4. UploadSafe(w)'
    <2>1. ASSUME budget'["upstream"] = Budget["upstream"]
          PROVE  /\ obj'[w].checksum \in {Nil, upstream'[w]}
                 /\ pc'[w] \in Fetched => local'[w].archive = upstream'[w]
      BY <1>1, <2>1, Undisturbance DEF SafetyInv, UploadSafe, Fetched
    <2>2. pc'[w] \notin {"firstPut", "put", "updateSpec"}
      BY <1>l DEF Naming
    <2>3. pc'[w] \in Recorded => pc[w] \in Recorded
      BY DEF Recorded, Naming
    <2>4. QED
      BY <2>1, <2>2, <2>3, FileKept DEF UploadSafe
  <1>5. NotYetStored(w)'
    <2> SUFFICES ASSUME pc'[w] \in Naming \ {"put", "updateSpec"},
                        obj[w].fileName = Nil, local[w].fileName # Nil
                 PROVE  storage'[local[w].fileName] = Nil
      BY DEF NotYetStored
    <2>1. pc[w] \in {"fastPath", "download", "resolveStored"}
      BY <1>l
    <2>2. storage[local[w].fileName] = Nil /\ local[w].fileName \in Names(w)
      BY <1>1, <2>1 DEF NotYetStored, Names, Naming
    <2>3. QED
      BY <2>1, <2>2, FileStep DEF DeleteArtifact
  <1>6. (obj[w].exists /\ obj[w].synced /\ ~obj[w].deleting /\ Undisturbed(w) => Servable(w))'
    BY FileKept DEF Servable
  <1>7. QED
    BY <1>2, <1>3, <1>4, <1>5, <1>6 DEF Good

\* Taking a key.
LEMMA GoodReconcile ==
  ASSUME IInv, SafetyInv, Next, NEW w \in Version, Reconcile(w)
  PROVE  Good(w)'
  <1>0. Typed
    BY DEF IInv, TypeOK
  <1>1. /\ obj' = obj /\ refs' = refs /\ pc[w] = "idle" /\ pc'[w] = Branch(obj[w])
        /\ local'[w].fileName = local[w].fileName
        /\ Branch(obj[w]) # "idle" => local'[w].version = obj[w]
    BY <1>0 DEF Reconcile, Goto, api, Typed, Worker
  <1>2. pc'[w] \in Unnamed
    BY <1>0, <1>1, BranchFacts DEF Unnamed, Typed, IInv, TypeOK, Gone
  <1>3. pc'[w] \notin Naming \cup Recorded \cup Fetched \cup {"updateSpec", "firstPut", "put", "verify"}
    BY <1>2 DEF Unnamed, Naming, Recorded, Fetched
  <1>4. NameKept(w) /\ SyncedHasFile(w) /\ UploadSafe(w)
    BY DEF SafetyInv
  <1>5. NameKept(w)'
    BY <1>1, <1>2, <1>3, <1>4 DEF NameKept, Unnamed
  <1>6. SyncedHasFile(w)'
    BY <1>1, <1>3, <1>4 DEF SyncedHasFile, Naming
  <1>7. UploadSafe(w)'
    <2>1. budget'["upstream"] = Budget["upstream"] => obj'[w].checksum \in {Nil, upstream'[w]}
      BY <1>1, <1>4, Undisturbance DEF SafetyInv, UploadSafe
    <2>2. QED
      BY <1>3, <2>1 DEF UploadSafe
  <1>8. NotYetStored(w)'
    BY <1>3 DEF NotYetStored
  <1>9. (obj[w].exists /\ obj[w].synced /\ ~obj[w].deleting /\ Undisturbed(w) => Servable(w))'
    BY <1>1, FileKept DEF Servable
  <1>10. QED
    BY <1>5, <1>6, <1>7, <1>8, <1>9 DEF Good

\* The first step of reconcileDeletion: the file goes, and the object with it.
LEMMA GoodDeleteArtifact ==
  ASSUME IInv, SafetyInv, Next, NEW w \in Version, DeleteArtifact(w)
  PROVE  Good(w)'
  <1>0. Typed
    BY DEF IInv, TypeOK
  <1>1. /\ obj' = obj /\ refs' = refs /\ local' = local
        /\ pc[w] = "deleteArtifact" /\ pc'[w] = "removeFinalizer"
    BY <1>0 DEF DeleteArtifact, Goto, api, Typed
  <1>2. obj[w].deleting
    BY <1>1 DEF SafetyInv, Departing
  <1>3. /\ pc'[w] \notin Naming \cup Recorded \cup Fetched \cup {"prepare"}
        /\ pc[w] \in Unnamed /\ pc'[w] \in Unnamed
    BY <1>1 DEF Unnamed, Naming, Recorded, Fetched
  <1>4. NameKept(w) /\ SyncedHasFile(w) /\ UploadSafe(w)
    BY DEF SafetyInv
  <1>5. NameKept(w)' /\ SyncedHasFile(w)' /\ NotYetStored(w)'
    BY <1>1, <1>3, <1>4 DEF NameKept, SyncedHasFile, NotYetStored
  <1>6. UploadSafe(w)'
    <2>1. budget'["upstream"] = Budget["upstream"] => obj'[w].checksum \in {Nil, upstream'[w]}
      BY <1>1, <1>4, Undisturbance DEF SafetyInv, UploadSafe
    <2>2. QED
      BY <1>1, <1>3, <2>1 DEF UploadSafe
  <1>7. QED
    BY <1>1, <1>2, <1>5, <1>6 DEF Good

\* Choosing the name: the one in the spec or in the reference, or a new one.
LEMMA GoodPrepare ==
  ASSUME IInv, SafetyInv, Next, NEW w \in Version, Prepare(w)
  PROVE  Good(w)'
  <1> DEFINE o == local[w].version
             managed == ~IsProvider(w) /\ refs[w] # Nil
  <1>0. Typed
    BY DEF IInv, TypeOK
  <1>1. PICK f : /\ f \in CASE managed -> {refs[w]}
                            [] ~managed /\ (IsProvider(w) \/ o.fileName # Nil) -> {o.fileName}
                            [] OTHER -> Generated
                 /\ local' = [local EXCEPT ![w].fileName = f,
                                           ![w].config = IF managed THEN "module" ELSE o.config]
    BY DEF Prepare
  <1>2. /\ obj' = obj /\ refs' = refs /\ storage' = storage
        /\ pc[w] = "prepare" /\ pc'[w] = "fastPath"
    BY <1>0 DEF Prepare, Goto, api, Typed
  <1>3. local'[w].fileName = f /\ local'[w].version = local[w].version
    BY <1>0, <1>1 DEF Typed, Worker
  <1>4. NameKept(w) /\ SyncedHasFile(w) /\ UploadSafe(w)
    BY DEF SafetyInv
  <1>5. o.fileName = obj[w].fileName /\ obj[w].exists
    BY <1>2 DEF IInv, Fresh, Owned, Working, Labels, CallPoints
  <1>6. obj[w].fileName # Nil => f = obj[w].fileName
    BY <1>1, <1>4, <1>5 DEF NameKept
  <1>7. obj[w].fileName = Nil /\ f # Nil => storage[f] = Nil
    BY <1>1, <1>4, <1>5 DEF NameKept, Generated, Unused
  <1>8. NameKept(w)'
    BY <1>2, <1>3, <1>4, <1>6 DEF NameKept, Unnamed, Naming, Recorded
  <1>9. SyncedHasFile(w)'
    BY <1>2, <1>3, <1>4 DEF SyncedHasFile
  <1>10. UploadSafe(w)'
    <2>1. budget'["upstream"] = Budget["upstream"] => obj'[w].checksum \in {Nil, upstream'[w]}
      BY <1>2, <1>4, Undisturbance DEF SafetyInv, UploadSafe
    <2>2. QED
      BY <1>2, <2>1 DEF UploadSafe, Fetched, Recorded, Naming
  <1>11. NotYetStored(w)'
    BY <1>2, <1>3, <1>7 DEF NotYetStored
  <1>12. (obj[w].exists /\ obj[w].synced /\ ~obj[w].deleting /\ Undisturbed(w) => Servable(w))'
    BY <1>2, FileKept DEF Servable
  <1>13. QED
    BY <1>8, <1>9, <1>10, <1>11, <1>12 DEF Good

\* The download: a Version without a checksum goes to its first upload.
LEMMA GoodFetch ==
  ASSUME IInv, SafetyInv, Next, NEW w \in Version, Fetch(w), ~Moved(w)
  PROVE  Good(w)'
  <1>0. Typed
    BY DEF IInv, TypeOK
  <1>1. PICK f \in IF local[w].fileName # Nil THEN {local[w].fileName} ELSE Generated :
           local' = [local EXCEPT ![w].archive = upstream[w], ![w].fileName = f]
    BY DEF Fetch
  <1>2. /\ obj' = obj /\ refs' = refs /\ storage' = storage /\ upstream' = upstream
        /\ pc[w] = "fetch"
        /\ pc'[w] = IF local[w].version.checksum # Nil THEN "verify" ELSE "firstPut"
    BY <1>0 DEF Fetch, Goto, api, world, Typed
  <1>3. /\ local'[w].fileName = f /\ local'[w].archive = upstream[w]
        /\ local'[w].version = local[w].version
    BY <1>0, <1>1 DEF Typed, Worker
  <1>4. NameKept(w) /\ SyncedHasFile(w) /\ UploadSafe(w) /\ NotYetStored(w)
    BY DEF SafetyInv
  <1>5. local[w].version.checksum = obj[w].checksum
    BY <1>2 DEF IInv, Fresh, Working, Labels
  <1>6. f # Nil
    BY <1>1 DEF Generated, Unused
  <1>7. obj[w].fileName # Nil => f = obj[w].fileName
    BY <1>1, <1>2, <1>4 DEF NameKept, Naming
  <1>8. obj[w].fileName = Nil => storage[f] = Nil
    BY <1>1, <1>2, <1>4 DEF NotYetStored, Naming, Generated, Unused
  <1>9. NameKept(w)'
    BY <1>2, <1>3, <1>4, <1>6, <1>7 DEF NameKept, Unnamed, Naming, Recorded
  <1>10. SyncedHasFile(w)'
    BY <1>2, <1>4, <1>5 DEF SyncedHasFile
  <1>11. UploadSafe(w)'
    <2>1. budget'["upstream"] = Budget["upstream"] => obj'[w].checksum \in {Nil, upstream'[w]}
      BY <1>2, <1>4, Undisturbance DEF SafetyInv, UploadSafe
    <2>2. pc'[w] \in {"firstPut", "put"} => ~obj'[w].synced
      BY <1>2, <1>4, <1>5 DEF SyncedHasFile
    <2>3. QED
      BY <1>2, <1>3, <2>1, <2>2 DEF UploadSafe, Recorded, Naming
  <1>12. NotYetStored(w)'
    BY <1>2, <1>3, <1>8 DEF NotYetStored
  <1>13. (obj[w].exists /\ obj[w].synced /\ ~obj[w].deleting /\ Undisturbed(w) => Servable(w))'
    BY <1>2, FileKept DEF Servable
  <1>14. QED
    BY <1>9, <1>10, <1>11, <1>12, <1>13 DEF Good

\* The comparison with the recorded checksum: what is stored already is the
\* archive in hand, and the file of a synced Version is.
LEMMA GoodVerify ==
  ASSUME IInv, SafetyInv, Next, NEW w \in Version, VerifyStored(w)
  PROVE  Good(w)'
  <1>0. Typed
    BY DEF IInv, TypeOK
  <1>1. /\ obj' = obj /\ refs' = refs /\ local' = local /\ storage' = storage
        /\ upstream' = upstream /\ pc[w] = "verify"
        /\ pc'[w] = IF storage[local[w].fileName] = local[w].version.checksum
                    THEN "updateSpec" ELSE "put"
    BY <1>0 DEF VerifyStored, Goto, api, world, Typed
  <1>2. NameKept(w) /\ SyncedHasFile(w) /\ UploadSafe(w)
    BY DEF SafetyInv
  <1>3. /\ local[w].version.checksum = obj[w].checksum /\ obj[w].exists
        /\ w \in Immutable /\ obj[w].checksum # Nil => local[w].archive = obj[w].checksum
    BY <1>1 DEF IInv, Fresh, Archived, Owned, Working, Fetched, Labels, CallPoints
  <1>4. obj[w].checksum # Nil /\ local[w].fileName # Nil
    BY <1>1, <1>2 DEF SyncedHasFile, NameKept
  <1>5. Undisturbed(w) => local[w].archive = obj[w].checksum
    BY <1>1, <1>2, <1>3, <1>4 DEF Undisturbed, UploadSafe, Fetched
  <1>6. NameKept(w)'
    BY <1>1, <1>2, <1>4 DEF NameKept, Unnamed, Naming, Recorded
  <1>7. SyncedHasFile(w)'
    BY <1>1, <1>2 DEF SyncedHasFile
  <1>8. UploadSafe(w)'
    <2>1. ASSUME budget'["upstream"] = Budget["upstream"]
          PROVE  obj'[w].checksum \in {Nil, upstream'[w]} /\ local'[w].archive = upstream'[w]
      BY <1>1, <1>2, <2>1, Undisturbance DEF SafetyInv, UploadSafe, Fetched
    <2>2. ASSUME Undisturbed(w)', pc'[w] = "updateSpec"
          PROVE  storage'[local'[w].fileName] = local'[w].archive
      BY <1>1, <1>3, <1>5, <2>2, Undisturbance DEF SafetyInv
    <2>3. ASSUME Undisturbed(w)', pc'[w] = "put", ~obj[w].deleting, obj[w].synced
          PROVE  FALSE
      <3>1. Servable(w)
        BY <1>3, <2>3, FileKept
      <3>2. local[w].fileName = obj[w].fileName
        BY <1>1, <1>2, <3>1 DEF NameKept, Naming, Servable
      <3>3. QED
        BY <1>1, <1>3, <2>3, <3>1, <3>2 DEF Servable
    <2>4. pc'[w] \in {"put", "updateSpec"} /\ pc'[w] \notin Recorded
      BY <1>1 DEF Recorded, Naming
    <2>5. QED
      BY <1>1, <2>1, <2>2, <2>3, <2>4 DEF UploadSafe
  <1>9. NotYetStored(w)'
    BY <1>1 DEF NotYetStored
  <1>10. (obj[w].exists /\ obj[w].synced /\ ~obj[w].deleting /\ Undisturbed(w) => Servable(w))'
    BY <1>1, FileKept DEF Servable
  <1>11. QED
    BY <1>6, <1>7, <1>8, <1>9, <1>10 DEF Good

\* The uploads store the archive in hand.
LEMMA GoodUpload ==
  ASSUME IInv, SafetyInv, Next, NEW w \in Version, FirstPut(w) \/ Put(w)
  PROVE  Good(w)'
  <1>0. Typed
    BY DEF IInv, TypeOK
  <1>1. /\ obj' = obj /\ refs' = refs /\ local' = local
        /\ \/ pc[w] = "firstPut" /\ pc'[w] = "put"
           \/ pc[w] = "put" /\ pc'[w] = "updateSpec"
    BY <1>0 DEF FirstPut, Put, Goto, api, Typed
  <1>2. NameKept(w) /\ SyncedHasFile(w) /\ UploadSafe(w)
    BY DEF SafetyInv
  <1>3. local[w].fileName \in File
    <2>1. local[w].fileName # Nil
      BY <1>1, <1>2 DEF NameKept
    <2>2. QED
      BY <1>0, <2>1, WorkerFields DEF Typed
  <1>4. storage'[local[w].fileName] = local[w].archive
    BY <1>0, <1>3 DEF FirstPut, Put, Upload, Typed
  <1>5. NameKept(w)'
    BY <1>1, <1>2 DEF NameKept, Unnamed, Naming, Recorded
  <1>6. SyncedHasFile(w)'
    BY <1>1, <1>2 DEF SyncedHasFile
  <1>7. UploadSafe(w)'
    <2>1. ASSUME budget'["upstream"] = Budget["upstream"]
          PROVE  obj'[w].checksum \in {Nil, upstream'[w]} /\ local'[w].archive = upstream'[w]
      BY <1>1, <1>2, <2>1, Undisturbance DEF SafetyInv, UploadSafe, Fetched
    <2>2. Undisturbed(w)' => Undisturbed(w)
      BY Undisturbance DEF SafetyInv
    <2>3. QED
      BY <1>1, <1>2, <1>4, <2>1, <2>2 DEF UploadSafe
  <1>8. NotYetStored(w)'
    BY <1>1 DEF NotYetStored
  <1>9. (obj[w].exists /\ obj[w].synced /\ ~obj[w].deleting /\ Undisturbed(w) => Servable(w))'
    <2>1. Undisturbed(w)' => Undisturbed(w)
      BY Undisturbance DEF SafetyInv
    <2>2. QED
      BY <1>1, <1>2, <2>1 DEF UploadSafe
  <1>10. QED
    BY <1>5, <1>6, <1>7, <1>8, <1>9 DEF Good

\* The name is recorded, and is the one the spec had if it had one.
LEMMA GoodUpdateSpec ==
  ASSUME IInv, SafetyInv, Next, NEW w \in Version, UpdateSpec(w)
  PROVE  Good(w)'
  <1>0. Typed
    BY DEF IInv, TypeOK
  <1>1. pc[w] = "updateSpec" /\ obj[w].exists
    BY DEF UpdateSpec, IInv, Owned, Working, Labels, CallPoints
  <1>2. /\ local' = local /\ refs' = refs /\ pc'[w] \in {"resolve", "writeStatus"}
        /\ obj'[w] = [obj[w] EXCEPT !.fileName = local[w].fileName, !.config = local[w].config]
    BY <1>0, <1>1, ZenonT(60) DEF UpdateSpec, Goto, Typed
  <1>3. /\ obj'[w].exists /\ obj'[w].fileName = local[w].fileName
        /\ obj'[w].checksum = obj[w].checksum
        /\ obj'[w].synced = obj[w].synced /\ obj'[w].deleting = obj[w].deleting
    <2>1. obj[w] \in Object
      BY <1>0 DEF Typed
    <2>2. QED
      BY <1>1, <1>2, <2>1 DEF Object
  <1>4. NameKept(w) /\ SyncedHasFile(w) /\ UploadSafe(w)
    BY DEF SafetyInv
  <1>5. /\ local[w].fileName # Nil
        /\ obj[w].fileName # Nil => local[w].fileName = obj[w].fileName
    BY <1>1, <1>4 DEF NameKept, Naming
  <1>6. pc'[w] \in Recorded \cap Fetched /\ pc[w] \in Fetched
    BY <1>1, <1>2 DEF Recorded, Unnamed, Naming, Fetched, Labels, CallPoints
  <1>7. NameKept(w)'
    BY <1>1, <1>2, <1>3, <1>4, <1>5, <1>6 DEF NameKept, Recorded
  <1>8. SyncedHasFile(w)'
    BY <1>2, <1>3, <1>4, <1>5 DEF SyncedHasFile
  <1>9. UploadSafe(w)'
    <2>1. ASSUME budget'["upstream"] = Budget["upstream"]
          PROVE  obj'[w].checksum \in {Nil, upstream'[w]} /\ local'[w].archive = upstream'[w]
      BY <1>2, <1>3, <1>4, <1>6, <2>1, Undisturbance DEF SafetyInv, UploadSafe
    <2>2. Undisturbed(w)' => storage'[local'[w].fileName] = local'[w].archive
      BY <1>1, <1>2, FileKept
    <2>3. QED
      BY <1>2, <2>1, <2>2 DEF UploadSafe
  <1>10. NotYetStored(w)'
    BY <1>2, <1>6 DEF NotYetStored, Recorded
  <1>11. (obj[w].exists /\ obj[w].synced /\ ~obj[w].deleting /\ Undisturbed(w) => Servable(w))'
    BY <1>1, <1>3, <1>4, <1>5, FileKept DEF Servable, SyncedHasFile
  <1>12. QED
    BY <1>7, <1>8, <1>9, <1>10, <1>11 DEF Good

\* The status describes what is stored.
LEMMA GoodWriteStatus ==
  ASSUME IInv, SafetyInv, Next, NEW w \in Version, WriteStatus(w)
  PROVE  Good(w)'
  <1>0. Typed
    BY DEF IInv, TypeOK
  <1>1. pc[w] = "writeStatus" /\ obj[w].exists
    BY DEF WriteStatus, IInv, Owned, Working, Labels, CallPoints
  <1> DEFINE o == WithScans(obj[w], local[w])
  <1>2. obj'[w] = [o EXCEPT !.synced = TRUE, !.checksum = local[w].archive, !.message = "ok"]
    BY <1>0, <1>1 DEF WriteStatus, Typed
  <1>3. obj'[w].exists /\ obj'[w].fileName = obj[w].fileName /\ obj'[w].checksum = local[w].archive
    <2>1. o \in Object /\ Same(o, obj[w])
      BY <1>0, WithScansType, ObjectKeeps DEF WithScans, Typed
    <2> DEFINE n == [o EXCEPT !.synced = TRUE, !.checksum = local[w].archive, !.message = "ok"]
    <2>2. n.exists = o.exists /\ n.fileName = o.fileName /\ n.checksum = local[w].archive
      BY <2>1, ObjectSets
    <2>3. obj'[w] = n
      BY <1>2
    <2> HIDE DEF n, o
    <2>4. QED
      BY <1>1, <2>1, <2>2, <2>3 DEF Same
  <1>4. /\ refs' = refs
        /\ Returns(w) \/ (pc'[w] = "resetForceSync" /\ local' = local)
    BY <1>0, <1>1 DEF WriteStatus, Finish, Requeue, Return, Goto, Returns, Typed
  <1>5. NameKept(w) /\ UploadSafe(w) /\ pc[w] \in Recorded \cap Fetched
    BY <1>1 DEF SafetyInv, Recorded, Unnamed, Naming, Fetched, Labels, CallPoints
  <1>6. /\ obj[w].fileName # Nil /\ local[w].fileName = obj[w].fileName
        /\ local[w].archive \in Checksum
    BY <1>5 DEF NameKept, IInv, Archived
  <1>7. pc'[w] = "idle" \/ pc'[w] = "resetForceSync"
    BY <1>4 DEF Returns
  <1>8. NameKept(w)'
    BY <1>1, <1>3, <1>4, <1>5, <1>6, <1>7, IdleName DEF NameKept, Returns, Unnamed, Naming, Recorded
  <1>9. SyncedHasFile(w)'
    BY <1>3, <1>6, <1>7 DEF SyncedHasFile
  <1>10. Undisturbed(w)' => storage'[obj[w].fileName] = local[w].archive
    BY <1>5, <1>6, FileKept
  <1>11. UploadSafe(w)'
    <2>1. budget'["upstream"] = Budget["upstream"] => obj'[w].checksum \in {Nil, upstream'[w]}
      BY <1>3, <1>5, Undisturbance DEF SafetyInv, UploadSafe
    <2>2. pc'[w] \in Recorded => local'[w] = local[w]
      BY <1>4 DEF Returns, Recorded, Unnamed
    <2>3. QED
      BY <1>6, <1>7, <1>10, <2>1, <2>2 DEF UploadSafe, Fetched
  <1>12. NotYetStored(w)'
    BY <1>7 DEF NotYetStored, Naming
  <1>13. (obj[w].exists /\ obj[w].synced /\ ~obj[w].deleting /\ Undisturbed(w) => Servable(w))'
    BY <1>3, <1>6, <1>10 DEF Servable
  <1>14. QED
    BY <1>8, <1>9, <1>11, <1>12, <1>13 DEF Good

\* The fields of a new object.
LEMMA NewFields ==
  ASSUME NEW f, NEW c
  PROVE  /\ NewVersion(f, c).exists /\ NewVersion(f, c).fileName = f
         /\ NewVersion(f, c).checksum = Nil /\ ~NewVersion(f, c).synced
  BY DEF NewVersion, Absent

\* Creation: the object has the name its Module refers to and is not synced.
LEMMA GoodCreate ==
  ASSUME IInv, SafetyInv, Next, NEW w \in Version, CreateVersion(w)
  PROVE  Good(w)'
  <1>0. Typed
    BY DEF IInv, TypeOK
  <1>1. PICK f \in {Nil} \cup (IF IsProvider(w) THEN {} ELSE Generated), c \in {"given", "dual"} :
           obj' = [obj EXCEPT ![w] = NewVersion(f, c)] /\ refs' = [refs EXCEPT ![w] = f]
    BY DEF CreateVersion
  <1>2. ~obj[w].exists /\ local' = local /\ pc' = pc
    BY DEF CreateVersion
  <1>3. pc[w] \in {"idle", "addFinalizer"}
    BY <1>0, <1>2 DEF IInv, Owned, Working, Typed
  <1>4. obj'[w] = NewVersion(f, c) /\ refs'[w] = f
    BY <1>0, <1>1 DEF Typed
  <1>5. /\ obj'[w].exists /\ obj'[w].fileName = f
        /\ obj'[w].checksum = Nil /\ ~obj'[w].synced
    BY <1>4, NewFields
  <1>6. NameKept(w)
    BY DEF SafetyInv
  <1>7. pc'[w] \notin Naming \cup Recorded \cup Fetched
    BY <1>2, <1>3 DEF Naming, Recorded, Unnamed, Fetched
  <1>8. NameKept(w)'
    BY <1>2, <1>3, <1>4, <1>5, <1>6, <1>7 DEF NameKept
  <1>9. SyncedHasFile(w)' /\ UploadSafe(w)' /\ NotYetStored(w)'
    BY <1>2, <1>3, <1>5, <1>7 DEF SyncedHasFile, UploadSafe, NotYetStored
  <1>10. QED
    BY <1>5, <1>8, <1>9 DEF Good

\* Deletion, and the edit of a spec.
LEMMA GoodEdit ==
  ASSUME IInv, SafetyInv, Next, NEW w \in Version, DeleteVersion(w) \/ SetForceSync(w)
  PROVE  Good(w)'
  <1>0. Typed
    BY DEF IInv, TypeOK
  <1>1. local' = local /\ pc' = pc /\ refs' = refs
    BY DEF DeleteVersion, SetForceSync
  <1>2. \/ obj'[w] = Absent /\ ~obj[w].finalizer
        \/ obj'[w] = [obj[w] EXCEPT !.deleting = TRUE]
        \/ obj'[w] = [obj[w] EXCEPT !.forceSync = TRUE]
    BY <1>0 DEF DeleteVersion, SetForceSync, Typed
  <1>3. NameKept(w) /\ SyncedHasFile(w) /\ UploadSafe(w) /\ NotYetStored(w)
    BY DEF SafetyInv
  <1>4. CASE obj'[w] = Absent /\ ~obj[w].finalizer
    <2>1. pc[w] \in {"idle", "addFinalizer"}
      BY <1>0, <1>4 DEF IInv, Owned, Working, Typed
    <2>2. pc'[w] \notin Naming \cup Recorded \cup Fetched
      BY <1>1, <2>1 DEF Naming, Recorded, Unnamed, Fetched
    <2>3. ~Absent.exists /\ ~Absent.synced /\ Absent.checksum = Nil
      BY DEF Absent
    <2>4. NameKept(w)' /\ SyncedHasFile(w)' /\ UploadSafe(w)' /\ NotYetStored(w)'
      BY <1>1, <1>3, <1>4, <2>1, <2>2, <2>3
         DEF NameKept, SyncedHasFile, UploadSafe, NotYetStored
    <2>5. QED
      BY <1>4, <2>3, <2>4 DEF Good
  <1>5. CASE \/ obj'[w] = [obj[w] EXCEPT !.deleting = TRUE]
             \/ obj'[w] = [obj[w] EXCEPT !.forceSync = TRUE]
    <2>1. /\ obj'[w].exists = obj[w].exists /\ obj'[w].fileName = obj[w].fileName
          /\ obj'[w].checksum = obj[w].checksum /\ obj'[w].synced = obj[w].synced
          /\ ~obj'[w].deleting => ~obj[w].deleting
      <3>1. obj[w] \in Object
        BY <1>0 DEF Typed
      <3> DEFINE n == [obj[w] EXCEPT !.deleting = TRUE]
                 m == [obj[w] EXCEPT !.forceSync = TRUE]
      <3>2. /\ n.exists = obj[w].exists /\ n.fileName = obj[w].fileName /\ n.deleting
            /\ n.checksum = obj[w].checksum /\ n.synced = obj[w].synced
        BY <3>1 DEF Object
      <3>3. /\ m.exists = obj[w].exists /\ m.fileName = obj[w].fileName
            /\ m.deleting = obj[w].deleting
            /\ m.checksum = obj[w].checksum /\ m.synced = obj[w].synced
        BY <3>1 DEF Object
      <3>4. obj'[w] = n \/ obj'[w] = m
        BY <1>5
      <3> HIDE DEF n, m
      <3>5. QED
        BY <3>2, <3>3, <3>4
    <2>2. storage' = storage
      BY DEF DeleteVersion, SetForceSync
    <2>3. NameKept(w)'
      BY <1>1, <1>3, <2>1 DEF NameKept
    <2>4. SyncedHasFile(w)'
      BY <1>1, <1>3, <2>1 DEF SyncedHasFile
    <2>5. NotYetStored(w)'
      BY <1>1, <1>3, <2>1, <2>2 DEF NotYetStored
    <2>6. UploadSafe(w)'
      <3>1. ASSUME budget'["upstream"] = Budget["upstream"]
            PROVE  /\ obj'[w].checksum \in {Nil, upstream'[w]}
                   /\ pc'[w] \in Fetched => local'[w].archive = upstream'[w]
        BY <1>1, <1>3, <2>1, <3>1, Undisturbance DEF SafetyInv, UploadSafe
      <3>2. Undisturbed(w)' => Undisturbed(w)
        BY Undisturbance DEF SafetyInv
      <3>3. QED
        BY <1>1, <1>3, <2>1, <2>2, <3>1, <3>2 DEF UploadSafe
    <2>7. (obj[w].exists /\ obj[w].synced /\ ~obj[w].deleting /\ Undisturbed(w) => Servable(w))'
      BY <2>1, FileKept DEF Servable
    <2>8. QED
      BY <2>3, <2>4, <2>5, <2>6, <2>7 DEF Good
  <1>6. QED
    BY <1>2, <1>4, <1>5

\* How the writes of a worker treat the synced flag.
LEMMA SyncedField ==
  ASSUME NEW o \in Object
  PROVE  /\ \A b : [o EXCEPT !.forceSync = b].synced = o.synced
         /\ \A m : [o EXCEPT !.message = m].synced = o.synced
         /\ \A b, m : [o EXCEPT !.synced = b, !.message = m].synced = b
         /\ \A b : LET n == [o EXCEPT !.finalizer = b] IN
                     n.synced = o.synced /\ n.deleting = o.deleting
  BY DEF Object

\* A quiet step that writes the object returns, and only reconcileStoredScanPolicy
\* may sync it again.
LEMMA QuietSynced ==
  ASSUME TypeOK, NEW v \in Version, Quiet(v)
  PROVE  \/ obj'[v] = obj[v]
         \/ Returns(v) /\ (obj'[v].synced => obj[v].synced \/ pc[v] = "applyStored")
  <1> DEFINE o == obj[v]
  <1>0. obj \in [Version -> Object] /\ o \in Object /\ local[v] \in Worker
        /\ pc \in [Version -> Labels] /\ local \in [Version -> Worker]
    BY DEF TypeOK, Typed
  <1> USE DEF Returns, Return, Requeue
  <1>1. CASE WriteTerminal(v)
    <2>1. o' = o \/ o' = [o EXCEPT !.synced = FALSE, !.message = "terminal"]
      BY <1>0, <1>1 DEF WriteTerminal, Conflict
    <2>2. Returns(v)
      BY <1>0, <1>1 DEF WriteTerminal
    <2>3. ~[o EXCEPT !.synced = FALSE, !.message = "terminal"].synced
      BY <1>0, SyncedField
    <2>4. QED
      BY <2>1, <2>2, <2>3
  <1>2. CASE Fetch(v) /\ Moved(v)
    <2>1. o' = o \/ o' = [o EXCEPT !.synced = FALSE, !.message = "error"]
      BY <1>0, <1>2 DEF Fetch, Conflict
    <2>2. Returns(v)
      BY <1>0, <1>2 DEF Fetch
    <2>3. ~[o EXCEPT !.synced = FALSE, !.message = "error"].synced
      BY <1>0, SyncedField
    <2>4. QED
      BY <2>1, <2>2, <2>3
  <1>3. CASE FastPath(v) \/ VerifyStored(v) \/ FirstPut(v) \/ Put(v) \/ ResolvePolicy(v)
    BY <1>3 DEF FastPath, VerifyStored, FirstPut, Put, ResolvePolicy, api
  <1>4. CASE BinaryScan(v) \/ SourceDedup(v) \/ SourceScan(v) \/ AcquireDownload(v) \/ AcquireScan(v)
    BY <1>4 DEF BinaryScan, SourceDedup, SourceScan, AcquireDownload, AcquireScan, api
  <1>5. CASE PersistScanViolation(v)
    <2>1. o' = o \/ o' = [WithScans(o, local[v]) EXCEPT !.synced = FALSE, !.message = "violation"]
      BY <1>0, <1>5 DEF PersistScanViolation
    <2>2. Returns(v)
      BY <1>0, <1>5 DEF PersistScanViolation
    <2>3. ~[WithScans(o, local[v]) EXCEPT !.synced = FALSE, !.message = "violation"].synced
      BY <1>0, WithScansType, SyncedField
    <2>4. QED
      BY <2>1, <2>2, <2>3
  <1>6. CASE ResetForceSync(v)
    <2>1. o' = o \/ o' = [o EXCEPT !.forceSync = FALSE]
      BY <1>0, <1>6 DEF ResetForceSync
    <2>2. Returns(v)
      BY <1>0, <1>6 DEF ResetForceSync, Finish
    <2>3. [o EXCEPT !.forceSync = FALSE].synced = o.synced
      BY <1>0, SyncedField
    <2>4. QED
      BY <2>1, <2>2, <2>3
  <1>7. CASE ApplyStored(v)
    BY <1>0, <1>7 DEF ApplyStored, Finish
  <1>8. CASE Failure(v)
    <2>1. o' = o \/ (Returns(v) /\ o' = [o EXCEPT !.message = "error"])
      BY <1>0, <1>8 DEF Failure, FastPathFails, FetchFails, CallFails, Conflict, api
    <2>2. [o EXCEPT !.message = "error"].synced = o.synced
      BY <1>0, SyncedField
    <2>3. QED
      BY <2>1, <2>2
  <1>9. QED
    BY <1>1, <1>2, <1>3, <1>4, <1>5, <1>6, <1>7, <1>8 DEF Quiet

\* Where a quiet step that does not return leads.
LEMMA QuietMoves ==
  ASSUME TypeOK, NEW v \in Version, Quiet(v)
  PROVE  Returns(v) \/ Moves(v) \/ VerifyStored(v) \/ FirstPut(v) \/ Put(v)
  <1> USE DEF TypeOK, Typed, Goto
  <1>1. CASE WriteTerminal(v) \/ PersistScanViolation(v) \/ ResetForceSync(v) \/ ApplyStored(v)
    BY <1>1 DEF WriteTerminal, PersistScanViolation, ResetForceSync, ApplyStored, Finish,
       Returns, Return, Requeue
  <1>2. CASE Fetch(v) /\ Moved(v)
    BY <1>2 DEF Fetch, Returns, Return, Requeue
  <1>3. CASE FastPath(v)
    BY <1>3 DEF FastPath, FastPathHit, Returns, Return, Moves
  <1>4. CASE AcquireDownload(v) \/ FastPathFails(v)
    BY <1>4 DEF AcquireDownload, FastPathFails, Moves
  <1>5. CASE FetchFails(v) \/ CallFails(v)
    BY <1>5 DEF FetchFails, CallFails, Returns, Return, Requeue
  <1> USE DEF Moves, Recorded, Fetched, Unnamed, Naming, Labels, CallPoints
  <1>6. CASE ResolvePolicy(v)
    BY <1>6 DEF ResolvePolicy, FirstScan
  <1>7. CASE AcquireScan(v)
    BY <1>7 DEF AcquireScan
  <1>8. CASE BinaryScan(v)
    BY <1>8 DEF BinaryScan
  <1>9. CASE SourceDedup(v)
    BY <1>9 DEF SourceDedup
  <1>10. CASE SourceScan(v)
    BY <1>10 DEF SourceScan
  <1>11. QED
    BY <1>1, <1>2, <1>3, <1>4, <1>5, <1>6, <1>7, <1>8, <1>9, <1>10 DEF Quiet, Failure

\* A quiet step keeps what it does not return from, in the worker and in the
\* object.
LEMMA QuietHolds ==
  ASSUME TypeOK, NEW v \in Version, Quiet(v)
  PROVE  \/ Returns(v)
         \/ Holds(v)
  <1>1. OnlyAt(v) /\ (Returns(v) \/ Proceeds(v))
    BY QuietStep
  <1>2. obj'[v] = obj[v] \/ Returns(v)
    BY QuietSynced
  <1>3. QED
    BY <1>1, <1>2 DEF OnlyAt, Proceeds, Holds

\* Quiet steps of the worker of w.
LEMMA GoodQuiet ==
  ASSUME IInv, SafetyInv, Next, NEW w \in Version, Quiet(w)
  PROVE  Good(w)'
  <1>0. TypeOK
    BY DEF IInv
  <1>1. CASE Returns(w)
    <2>1. OnlyAt(w) /\ Same(obj'[w], obj[w]) /\ Stage(obj'[w], obj[w])
      BY <1>0, QuietStep, QuietStage
    <2>2. obj'[w].synced => obj[w].synced
      <3>1. pc[w] = "applyStored" => obj[w].synced
        BY DEF SafetyInv, SyncedHasFile
      <3>2. QED
        BY <1>0, <3>1, QuietSynced
    <2>3. QED
      BY <1>1, <2>1, <2>2, GoodReturns DEF OnlyAt, Same, Stage
  <1>2. CASE Holds(w) /\ Moves(w)
    BY <1>2, GoodMoves
  <1>3. CASE VerifyStored(w) \/ FirstPut(w) \/ Put(w)
    BY <1>3, GoodVerify, GoodUpload
  <1>4. QED
    BY <1>0, <1>1, <1>2, <1>3, QuietHolds, QuietMoves

\* The step of a worker, of its operator or of a crash.
LEMMA GoodOwn ==
  ASSUME IInv, SafetyInv, Next, NEW w \in Version,
         \/ Quiet(w) \/ Reconcile(w)
         \/ AddFinalizer(w) \/ DeleteArtifact(w) \/ RemoveFinalizer(w)
         \/ Prepare(w) \/ (Fetch(w) /\ ~Moved(w)) \/ UpdateSpec(w) \/ WriteStatus(w)
         \/ CreateVersion(w) \/ DeleteVersion(w) \/ SetForceSync(w)
         \/ Crash
  PROVE  Good(w)'
  <1>0. Typed /\ obj[w] \in Object
    BY DEF IInv, TypeOK, Typed
  <1>1. CASE AddFinalizer(w)
    <2>1. Returns(w) /\ refs' = refs
      BY <1>0, <1>1 DEF AddFinalizer, Requeue, Return, Returns, Typed
    <2>2. obj'[w] = obj[w] \/ obj'[w] = [obj[w] EXCEPT !.finalizer = TRUE]
      BY <1>0, <1>1 DEF AddFinalizer, Conflict, Typed
    <2> DEFINE n == [obj[w] EXCEPT !.finalizer = TRUE]
    <2>3. /\ n.exists = obj[w].exists /\ n.deleting = obj[w].deleting
          /\ n.fileName = obj[w].fileName /\ n.checksum = obj[w].checksum
          /\ n.synced = obj[w].synced
      BY <1>0, ObjectSets, SyncedField
    <2>4. obj'[w] = obj[w] \/ obj'[w] = n
      BY <2>2
    <2> HIDE DEF n
    <2>5. QED
      BY <2>1, <2>3, <2>4, GoodReturns
  <1>2. CASE RemoveFinalizer(w)
    <2>1. Returns(w) /\ refs' = refs /\ (obj'[w] = obj[w] \/ obj'[w] = Absent)
      BY <1>0, <1>2 DEF RemoveFinalizer, Return, Returns, Conflict, Typed
    <2>2. QED
      BY <2>1, GoodReturns
  <1>3. CASE Crash
    <2>1. Returns(w) /\ refs' = refs /\ obj' = obj
      BY <1>3 DEF Crash, Returns, api
    <2>2. QED
      BY <2>1, GoodReturns
  <1>4. QED
    BY <1>1, <1>2, <1>3, GoodQuiet, GoodReconcile, GoodDeleteArtifact, GoodPrepare, GoodFetch,
       GoodUpdateSpec, GoodWriteStatus, GoodCreate, GoodEdit

\* A step that has to do with v leaves the others alone.
LEMMA OthersHold ==
  ASSUME TypeOK, NEW v \in Version, NEW w \in Version \ {v},
         \/ Quiet(v) \/ Reconcile(v)
         \/ AddFinalizer(v) \/ DeleteArtifact(v) \/ RemoveFinalizer(v)
         \/ Prepare(v) \/ (Fetch(v) /\ ~Moved(v)) \/ UpdateSpec(v) \/ WriteStatus(v)
         \/ CreateVersion(v) \/ DeleteVersion(v) \/ SetForceSync(v)
  PROVE  Holds(w) /\ pc'[w] = pc[w] /\ local'[w] = local[w]
  <1> USE DEF Holds
  <1>1. CASE Quiet(v)
    BY <1>1, QuietStep DEF OnlyAt
  <1> USE DEF TypeOK, Typed, api
  <1>2. CASE Reconcile(v) \/ DeleteArtifact(v)
    BY <1>2 DEF Reconcile, DeleteArtifact, Goto
  <1>3. CASE AddFinalizer(v) \/ RemoveFinalizer(v)
    BY <1>3 DEF AddFinalizer, RemoveFinalizer, Requeue, Return, Conflict
  <1>4. CASE Prepare(v)
    BY <1>4 DEF Prepare, Goto
  <1>5. CASE Fetch(v) /\ ~Moved(v)
    BY <1>5 DEF Fetch, Goto
  <1>6. CASE UpdateSpec(v)
    BY <1>6 DEF UpdateSpec, Requeue, Return, Goto
  <1>7. CASE WriteStatus(v)
    BY <1>7 DEF WriteStatus, Finish, Requeue, Return, Goto
  <1>8. CASE CreateVersion(v) \/ DeleteVersion(v) \/ SetForceSync(v)
    BY <1>8 DEF CreateVersion, DeleteVersion, SetForceSync
  <1>9. QED
    BY <1>1, <1>2, <1>3, <1>4, <1>5, <1>6, <1>7, <1>8

\* Every step keeps the invariant of every Version.
LEMMA GoodStep ==
  ASSUME IInv, SafetyInv, Next, NEW w \in Version
  PROVE  Good(w)'
  <1>0. TypeOK
    BY DEF IInv
  <1>1. CASE UNCHANGED <<obj, refs, local, pc>>
    BY <1>1, GoodStays DEF Holds
  <1>2. QED
    BY <1>0, <1>1, NextCases, GoodOwn, GoodStays, OthersHold

-----------------------------------------------------------------------------
\* The files left behind

\* The work queue hands out no more keys than there are workers.
LEMMA BusyStep ==
  ASSUME IInv, WithinLimits, Next
  PROVE  /\ Cardinality(Busy)' <= MaxConcurrentReconciles
         /\ IsFiniteSet(Busy)
  <1>0. TypeOK /\ pc \in [Version -> Labels] /\ pc' \in [Version -> Labels]
    <2>1. Typed'
      BY NextType DEF IInv
    <2>2. QED
      BY <2>1 DEF IInv, TypeOK, Typed
  <1>1. IsFiniteSet(Busy) /\ Cardinality(Busy) \in Nat
    BY FS_Subset, FS_CardinalityType DEF Busy
  <1>2. CASE Busy' \subseteq Busy
    <2>1. Cardinality(Busy') <= Cardinality(Busy) /\ Cardinality(Busy') \in Nat
      BY <1>1, <1>2, FS_Subset, FS_CardinalityType
    <2>2. QED
      BY <1>1, <2>1 DEF WithinLimits
  <1>3. ASSUME NEW v \in Version, Reconcile(v)
        PROVE  Cardinality(Busy)' <= MaxConcurrentReconciles
    <2>1. Busy' \subseteq Busy \cup {v}
      BY <1>0, <1>3 DEF Reconcile, Goto, Busy
    <2>2. IsFiniteSet(Busy \cup {v}) /\ Cardinality(Busy \cup {v}) <= Cardinality(Busy) + 1
      <3>1. /\ IsFiniteSet(Busy \cup {v})
            /\ Cardinality(Busy \cup {v}) =
                 IF v \in Busy THEN Cardinality(Busy) ELSE Cardinality(Busy) + 1
        BY <1>1, FS_AddElement
      <3>2. QED
        BY <1>1, <3>1
    <2>3. /\ Cardinality(Busy') <= Cardinality(Busy \cup {v})
          /\ Cardinality(Busy') \in Nat /\ Cardinality(Busy \cup {v}) \in Nat
      <3>1. IsFiniteSet(Busy') /\ Cardinality(Busy') <= Cardinality(Busy \cup {v})
        BY <2>1, <2>2, FS_Subset
      <3>2. QED
        BY <2>2, <3>1, FS_CardinalityType
    <2>4. QED
      BY <1>1, <1>3, <2>2, <2>3 DEF Reconcile
  <1>4. ASSUME NEW v \in Version, pc[v] # "idle" \/ pc'[v] = pc[v],
               \A w \in Version \ {v} : pc'[w] = pc[w]
        PROVE  Busy' \subseteq Busy
    BY <1>4 DEF Busy
  <1>5. ASSUME NEW v \in Version, Quiet(v) PROVE Busy' \subseteq Busy
    <2>1. pc[v] # "idle" \/ pc'[v] = pc[v]
      BY <1>0, <1>5, QuietStep DEF Returns, Proceeds, Working
    <2>2. QED
      BY <1>0, <1>4, <1>5, <2>1, OthersHold
  <1>6. ASSUME NEW v \in Version,
               \/ AddFinalizer(v) \/ DeleteArtifact(v) \/ RemoveFinalizer(v)
               \/ Prepare(v) \/ (Fetch(v) /\ ~Moved(v)) \/ UpdateSpec(v) \/ WriteStatus(v)
               \/ CreateVersion(v) \/ DeleteVersion(v) \/ SetForceSync(v)
        PROVE  Busy' \subseteq Busy
    <2>1. pc[v] # "idle" \/ pc' = pc
      BY <1>6 DEF AddFinalizer, DeleteArtifact, RemoveFinalizer, Prepare, Fetch, UpdateSpec,
         WriteStatus, CreateVersion, DeleteVersion, SetForceSync
    <2>2. QED
      BY <1>0, <1>4, <1>6, <2>1, OthersHold
  <1>7. Crash => Busy' \subseteq Busy
    BY DEF Crash, Busy
  <1>8. pc' = pc => Busy' \subseteq Busy
    BY DEF Busy
  <1>9. QED
    BY <1>1, <1>2, <1>3, <1>5, <1>6, <1>7, <1>8, NextCases

\* A worker gives a name up only when the name is in the spec, or has no file,
\* or when a call of the worker failed during or after the upload.
LEMMA NameGivenUp ==
  ASSUME IInv, SafetyInv, Next, NEW w \in Version, Quiet(w), Returns(w), ~CallFails(w), ~Crash,
         local[w].fileName \notin {Nil, obj[w].fileName}
  PROVE  storage'[local[w].fileName] = Nil
  <1>0. pc \in [Version -> Labels]
    BY DEF IInv, TypeOK, Typed
  <1>1. NameKept(w) /\ NotYetStored(w)
    BY DEF SafetyInv
  <1>2. pc[w] \in Naming /\ obj[w].fileName = Nil
    BY <1>0, <1>1 DEF NameKept, Recorded
  <1>3. ~FirstPut(w) /\ ~Put(w)
    BY <1>0 DEF FirstPut, Put, Goto, Returns
  <1>4. pc[w] \notin {"put", "updateSpec"}
    BY <1>3 DEF Quiet, Failure, WriteTerminal, FastPath, Fetch, VerifyStored, ResolvePolicy,
       BinaryScan, SourceDedup, SourceScan, PersistScanViolation, ResetForceSync, ApplyStored,
       AcquireDownload, AcquireScan, FastPathFails, FetchFails
  <1>5. storage[local[w].fileName] = Nil /\ local[w].fileName \in Names(w)
    BY <1>1, <1>2, <1>4 DEF NotYetStored, Names
  <1>6. ~DeleteArtifact(w)
    BY <1>2 DEF DeleteArtifact, Naming
  <1>7. QED
    BY <1>3, <1>5, <1>6, FileStep

\* A file that belongs to a Version goes on doing so, crashes and failed calls
\* aside.
LEMMA OwnerKept ==
  ASSUME IInv, SafetyInv, Next, NEW w \in Version, obj[w].exists,
         NEW f \in {obj[w].fileName, local[w].fileName}, f # Nil, storage'[f] # Nil,
         ~CallFails(w), ~Crash
  PROVE  obj'[w].exists /\ f \in {obj'[w].fileName, local'[w].fileName}
  <1>0. TypeOK /\ Typed /\ obj[w] \in Object
    BY DEF IInv, TypeOK, Typed
  <1>1. NameKept(w)
    BY DEF SafetyInv
  <1>2. CASE Holds(w)
    BY <1>2 DEF Holds
  <1>3. CASE Quiet(w)
    <2>1. Same(obj'[w], obj[w]) /\ (Returns(w) \/ Holds(w))
      BY <1>0, <1>3, QuietStep, QuietHolds
    <2>2. CASE f = obj[w].fileName
      BY <2>1, <2>2 DEF Same
    <2>3. CASE f # obj[w].fileName /\ Returns(w)
      <3>1. f = local[w].fileName
        BY <2>3
      <3>2. QED
        BY <1>3, <2>3, <3>1, NameGivenUp
    <2>4. QED
      BY <1>2, <2>1, <2>2, <2>3
  <1>4. CASE Reconcile(w) \/ DeleteArtifact(w)
    <2>1. obj' = obj /\ local'[w].fileName = local[w].fileName
      BY <1>0, <1>4 DEF Reconcile, DeleteArtifact, api, Typed, Worker
    <2>2. QED
      BY <2>1
  <1>5. CASE AddFinalizer(w)
    <2>1. f = obj[w].fileName
      BY <1>1, <1>5 DEF AddFinalizer, NameKept, Unnamed
    <2> DEFINE n == [obj[w] EXCEPT !.finalizer = TRUE]
    <2>2. obj'[w] = obj[w] \/ obj'[w] = n
      BY <1>0, <1>5 DEF AddFinalizer, Conflict, Typed
    <2>3. n.exists = obj[w].exists /\ n.fileName = obj[w].fileName
      BY <1>0, ObjectSets
    <2> HIDE DEF n
    <2>4. QED
      BY <2>1, <2>2, <2>3
  <1>6. CASE RemoveFinalizer(w)
    <2>1. pc[w] = "removeFinalizer" /\ storage' = storage
      BY <1>6 DEF RemoveFinalizer
    <2>2. f = obj[w].fileName
      BY <1>1, <2>1 DEF NameKept, Unnamed
    <2>3. QED
      BY <2>1, <2>2 DEF IInv, Cleaned
  <1>7. CASE Prepare(w)
    <2>1. f = obj[w].fileName
      BY <1>1, <1>7 DEF Prepare, NameKept, Unnamed
    <2>2. obj' = obj
      BY <1>7 DEF Prepare, api
    <2>3. QED
      BY <2>1, <2>2
  <1>8. CASE Fetch(w) /\ ~Moved(w)
    <2>1. PICK g \in IF local[w].fileName # Nil THEN {local[w].fileName} ELSE Generated :
             local' = [local EXCEPT ![w].archive = upstream[w], ![w].fileName = g]
      BY <1>8 DEF Fetch
    <2>2. local'[w].fileName = g
      BY <1>0, <2>1 DEF Typed, Worker
    <2>3. obj' = obj
      BY <1>8 DEF Fetch
    <2>4. QED
      BY <2>1, <2>2, <2>3
  <1>9. CASE UpdateSpec(w)
    <2>1. /\ local' = local
          /\ obj'[w] = [obj[w] EXCEPT !.fileName = local[w].fileName, !.config = local[w].config]
      BY <1>0, <1>9, ZenonT(60) DEF UpdateSpec, Typed
    <2>2. f = local[w].fileName
      BY <1>1, <1>9 DEF UpdateSpec, NameKept, Naming
    <2>3. QED
      BY <1>0, <2>1, <2>2, ObjectSets
  <1>10. CASE WriteStatus(w)
    <2>1. pc[w] \in Recorded
      BY <1>10 DEF WriteStatus, Recorded, Unnamed, Naming, Labels, CallPoints
    <2>2. f = obj[w].fileName
      BY <1>1, <2>1 DEF NameKept
    <2>3. Typed'
      BY NextType DEF IInv
    <2>4. obj'[w].exists /\ obj'[w].fileName = obj[w].fileName
      <3> DEFINE o == WithScans(obj[w], local[w])
                 n == [o EXCEPT !.synced = TRUE, !.checksum = local[w].archive, !.message = "ok"]
      <3>1. obj'[w] = n
        BY <1>0, <1>10 DEF WriteStatus, Typed
      <3>2. o \in Object /\ Same(o, obj[w])
        BY <1>0, WithScansType, ObjectKeeps DEF WithScans, Typed
      <3>3. n.exists = o.exists /\ n.fileName = o.fileName
        BY <3>2, ObjectSets
      <3> HIDE DEF n, o
      <3>4. QED
        BY <3>1, <3>2, <3>3 DEF Same
    <2>5. QED
      BY <2>2, <2>4
  <1>11. CASE DeleteVersion(w) \/ SetForceSync(w)
    <2>1. local' = local /\ storage' = storage
      BY <1>11 DEF DeleteVersion, SetForceSync
    <2>2. \/ obj'[w] = Absent /\ ~obj[w].finalizer
          \/ obj'[w] = [obj[w] EXCEPT !.deleting = TRUE]
          \/ obj'[w] = [obj[w] EXCEPT !.forceSync = TRUE]
      BY <1>0, <1>11 DEF DeleteVersion, SetForceSync, Typed
    <2>3. CASE ~obj[w].finalizer
      <3>1. pc[w] \in {"idle", "addFinalizer"}
        BY <1>0, <2>3 DEF IInv, Owned, Working, Typed
      <3>2. f = obj[w].fileName
        BY <1>1, <3>1 DEF NameKept, Unnamed
      <3>3. QED
        BY <2>1, <2>3, <3>2 DEF IInv, ArtifactProtected
    <2>4. /\ Same([obj[w] EXCEPT !.deleting = TRUE], obj[w])
          /\ Same([obj[w] EXCEPT !.forceSync = TRUE], obj[w])
      BY <1>0, ObjectKeeps
    <2>5. CASE Same(obj'[w], obj[w])
      BY <2>1, <2>5 DEF Same
    <2>6. QED
      BY <2>2, <2>3, <2>4, <2>5
  <1>12. ~CreateVersion(w)
    BY DEF CreateVersion
  <1>13. UNCHANGED <<obj, refs, local, pc>> => Holds(w)
    BY DEF Holds
  <1>14. QED
    BY <1>0, <1>2, <1>3, <1>4, <1>5, <1>6, <1>7, <1>8, <1>9, <1>10, <1>11, <1>12, <1>13,
       NextCases, OthersHold

\* A file is left behind by a failed call of the worker that holds its name, or
\* by a crash while one does.
LEMMA OrphanStep ==
  ASSUME IInv, SafetyInv, Next, NEW f \in Orphans', f \notin Orphans
  PROVE  \/ \E v \in Version : CallFails(v) /\ f = local[v].fileName
         \/ Crash /\ \E v \in Busy : f = local[v].fileName
  <1>0. Typed
    BY DEF IInv, TypeOK
  <1>1. /\ f \in File /\ storage'[f] # Nil /\ f # Nil
        /\ ~\E v \in Version : obj'[v].exists /\ f \in {obj'[v].fileName, local'[v].fileName}
    BY DEF Orphans
  <1>2. PICK w \in Version : obj[w].exists /\ f \in {obj[w].fileName, local[w].fileName}
    <2>1. CASE storage[f] # Nil
      BY <1>1, <2>1 DEF Orphans
    <2>2. CASE \E v \in Version : pc[v] \in {"firstPut", "put"} /\ local[v].fileName = f
      BY <2>2 DEF IInv, Owned, Working, Labels, CallPoints
    <2>3. QED
      BY <1>0, <1>1, <2>1, <2>2, Fills
  <1>3. CASE CallFails(w) \/ Crash
    <2>1. obj' = obj
      BY <1>3 DEF CallFails, Crash, api
    <2>2. f = local[w].fileName
      BY <1>1, <1>2, <2>1
    <2>3. w \in Busy
      BY <1>1, <2>2 DEF SafetyInv, NameKept, Unnamed, Busy
    <2>4. QED
      BY <1>3, <2>2, <2>3
  <1>4. QED
    BY <1>1, <1>2, <1>3, OwnerKept

\* The names in hand are no more than the busy workers.
LEMMA NamesInHand ==
  ASSUME IsFiniteSet(Busy)
  PROVE  LET H == {local[v].fileName : v \in Busy} IN
           IsFiniteSet(H) /\ Cardinality(H) <= Cardinality(Busy)
  <1> DEFINE H == {local[v].fileName : v \in Busy}
             name == [v \in Busy |-> local[v].fileName]
  <1>1. name \in Surjection(Busy, H)
    BY DEF Surjection
  <1> HIDE DEF H, name
  <1>2. IsFiniteSet(H) /\ Cardinality(H) <= Cardinality(Busy)
    BY <1>1, FS_Surjection
  <1>3. QED
    BY <1>2 DEF H

\* The interruptions so far, and what a step adds to them.
LEMMA InterruptionsStep ==
  ASSUME IInv, WithinLimits, Next
  PROVE  /\ Interruptions \in Nat /\ Interruptions' \in Nat
         /\ Interruptions <= Interruptions'
         /\ (\E v \in Version : CallFails(v)) => Interruptions' = Interruptions + 1
         /\ Crash => Interruptions' = Interruptions + MaxConcurrentReconciles
  <1> DEFINE c == Budget["crash"] - budget["crash"]
             d == Budget["crash"] - budget'["crash"]
             e == Budget["fault"] - budget["fault"]
             g == Budget["fault"] - budget'["fault"]
             M == MaxConcurrentReconciles
  <1>0. Typed
    BY DEF IInv, TypeOK
  <1>1. /\ budget["crash"] \in Nat /\ budget["fault"] \in Nat
        /\ budget'["crash"] \in Int /\ budget'["fault"] \in Int
        /\ budget'["crash"] <= budget["crash"] /\ budget'["fault"] <= budget["fault"]
        /\ budget["crash"] <= Budget["crash"] /\ budget["fault"] <= Budget["fault"]
        /\ Budget["crash"] \in Nat /\ Budget["fault"] \in Nat
    BY <1>0, BudgetShrinks DEF WithinLimits, EventKind
  <1>2. c \in Nat /\ d \in Nat /\ e \in Nat /\ g \in Nat /\ c <= d /\ e <= g /\ M \in Nat
    BY <1>1
  <1>3. ASSUME NEW v \in Version, CallFails(v) PROVE d = c /\ g = e + 1
    <2>1. Spend("fault")
      BY <1>3 DEF CallFails
    <2>2. budget'["fault"] = budget["fault"] - 1 /\ budget'["crash"] = budget["crash"]
      BY <1>0, <2>1, SpendStep DEF EventKind
    <2>3. QED
      BY <1>1, <2>2
  <1>4. ASSUME Crash PROVE d = c + 1 /\ g = e
    <2>1. Spend("crash")
      BY <1>4 DEF Crash
    <2>2. budget'["crash"] = budget["crash"] - 1 /\ budget'["fault"] = budget["fault"]
      BY <1>0, <2>1, SpendStep DEF EventKind
    <2>3. QED
      BY <1>1, <2>2
  <1>5. Interruptions = c * M + e /\ Interruptions' = d * M + g
    BY DEF Interruptions
  <1> HIDE DEF c, d, e, g, M
  <1>6. c * M \in Nat /\ d * M \in Nat /\ c * M <= d * M /\ (d = c + 1 => d * M = c * M + M)
    BY <1>2
  <1>7. M = MaxConcurrentReconciles
    BY DEF M
  <1>8. QED
    BY <1>2, <1>3, <1>4, <1>5, <1>6, <1>7

\* Every step keeps the bound.
LEMMA OrphansStep ==
  ASSUME IInv, SafetyInv, Next
  PROVE  IsFiniteSet(Orphans)' /\ OrphansBounded'
  <1>0. /\ IsFiniteSet(Orphans) /\ Cardinality(Orphans) \in Nat
        /\ Cardinality(Orphans) <= Interruptions
        /\ IsFiniteSet(Busy) /\ Cardinality(Busy) \in Nat
        /\ Cardinality(Busy) <= MaxConcurrentReconciles
        /\ WithinLimits
    BY BusyStep, FS_CardinalityType DEF SafetyInv, WithinLimits, OrphansBounded
  <1>1. ASSUME NEW S, IsFiniteSet(S), Orphans' \subseteq Orphans \cup S
        PROVE  /\ IsFiniteSet(Orphans')
               /\ Cardinality(Orphans') <= Cardinality(Orphans) + Cardinality(S)
               /\ Cardinality(Orphans') \in Nat /\ Cardinality(S) \in Nat
    <2>1. /\ IsFiniteSet(Orphans \cup S)
          /\ Cardinality(Orphans \cup S) =
               Cardinality(Orphans) + Cardinality(S) - Cardinality(Orphans \cap S)
      BY <1>0, <1>1, FS_Union
    <2>2. /\ Cardinality(S) \in Nat /\ Cardinality(Orphans \cap S) \in Nat
          /\ Cardinality(Orphans \cup S) \in Nat
      BY <1>0, <1>1, <2>1, FS_Intersection, FS_CardinalityType
    <2>3. IsFiniteSet(Orphans') /\ Cardinality(Orphans') <= Cardinality(Orphans \cup S)
      BY <1>1, <2>1, FS_Subset
    <2>4. Cardinality(Orphans') \in Nat
      BY <2>3, FS_CardinalityType
    <2>5. QED
      BY <1>0, <2>1, <2>2, <2>3, <2>4
  <1>2. CASE Crash
    <2> DEFINE H == {local[v].fileName : v \in Busy}
    <2>1. IsFiniteSet(H) /\ Cardinality(H) <= Cardinality(Busy)
      BY <1>0, NamesInHand
    <2>2. Orphans' \subseteq Orphans \cup H
      <3>1. \A v \in Version : ~CallFails(v) \/ obj' = obj
        BY <1>2 DEF Crash, api
      <3>2. ASSUME NEW f \in Orphans', f \notin Orphans PROVE f \in H
        <4>1. ASSUME NEW v \in Version, CallFails(v) PROVE FALSE
          <5>1. Spend("fault") /\ Spend("crash")
            BY <1>2, <4>1 DEF CallFails, Crash
          <5>2. QED
            BY <5>1, SpendStep DEF EventKind, IInv, TypeOK, Typed
        <4>2. QED
          BY <3>2, <4>1, OrphanStep
      <3>3. QED
        BY <3>2
    <2> HIDE DEF H
    <2>3. QED
      BY <1>0, <1>1, <1>2, <2>1, <2>2, InterruptionsStep DEF OrphansBounded
  <1>3. ASSUME NEW v \in Version, CallFails(v), ~Crash
        PROVE  IsFiniteSet(Orphans') /\ Cardinality(Orphans') <= Interruptions'
    <2>1. ASSUME NEW w \in Version, CallFails(w), w # v PROVE FALSE
      <3>1. pc'[v] = "idle" /\ pc'[v] = pc[v]
        BY <1>3, <2>1 DEF CallFails, Requeue, Return, IInv, TypeOK, Typed
      <3>2. QED
        BY <1>3, <3>1 DEF CallFails, CallPoints
    <2>2. Orphans' \subseteq Orphans \cup {local[v].fileName}
      BY <1>3, <2>1, OrphanStep
    <2>3. IsFiniteSet({local[v].fileName}) /\ Cardinality({local[v].fileName}) = 1
      BY FS_Singleton
    <2>4. Interruptions' = Interruptions + 1 /\ Interruptions \in Nat
      BY <1>0, <1>3, InterruptionsStep
    <2>5. QED
      BY <1>0, <1>1, <2>2, <2>3, <2>4
  <1>4. CASE ~Crash /\ \A v \in Version : ~CallFails(v)
    <2>1. Orphans' \subseteq Orphans \cup {}
      BY <1>4, OrphanStep
    <2>2. IsFiniteSet({}) /\ Cardinality({}) = 0
      BY FS_EmptySet
    <2>3. Interruptions <= Interruptions' /\ Interruptions \in Nat /\ Interruptions' \in Nat
      BY <1>0, InterruptionsStep
    <2>4. QED
      BY <1>0, <1>1, <2>1, <2>2, <2>3 DEF OrphansBounded
  <1>5. QED
    BY <1>2, <1>3, <1>4 DEF OrphansBounded

-----------------------------------------------------------------------------
\* The theorems

LEMMA InitSafety == Init => SafetyInv
  <1> SUFFICES ASSUME Init PROVE SafetyInv
    OBVIOUS
  <1>1. \A v \in Version : pc[v] = "idle" /\ obj[v] = Absent /\ local[v] = Idle /\ refs[v] = Nil
    BY DEF Init
  <1>2. ~Absent.exists /\ ~Absent.synced /\ Absent.checksum = Nil /\ Absent.fileName = Nil
    BY DEF Absent
  <1>3. Orphans = {} /\ Busy = {}
    BY <1>1 DEF Init, Orphans, Busy
  <1>4. IsFiniteSet({}) /\ Cardinality({}) = 0
    BY FS_EmptySet
  <1>5. Interruptions = 0
    BY DEF Init, Interruptions, EventKind
  <1>6. WithinLimits /\ OrphansBounded
    BY <1>3, <1>4, <1>5 DEF WithinLimits, OrphansBounded, Init
  <1>7. Departing /\ SyncedIsStored
    BY <1>1, <1>2 DEF Departing, SyncedIsStored
  <1>8. ASSUME NEW v \in Version
        PROVE  NameKept(v) /\ SyncedHasFile(v) /\ UploadSafe(v) /\ NotYetStored(v)
    <2> USE DEF Unnamed, Naming, Recorded, Fetched
    <2>1. NameKept(v) /\ NotYetStored(v)
      BY <1>1, <1>2, IdleName DEF NameKept, NotYetStored
    <2>2. SyncedHasFile(v) /\ UploadSafe(v)
      BY <1>1, <1>2 DEF SyncedHasFile, UploadSafe
    <2>3. QED
      BY <2>1, <2>2
  <1>9. QED
    BY <1>6, <1>7, <1>8 DEF SafetyInv

LEMMA SafetyStep ==
  ASSUME IInv, Terminating, SafetyInv, [Next]_vars
  PROVE  SafetyInv'
  <1>1. CASE UNCHANGED vars
    BY <1>1 DEF vars, SafetyInv, Departing, NameKept, SyncedHasFile, UploadSafe, NotYetStored,
       WithinLimits, SyncedIsStored, OrphansBounded, Orphans, Busy, Interruptions, Undisturbed,
       Servable
  <1>2. CASE Next
    <2>1. Departing'
      BY StagesInv DEF SafetyInv
    <2>2. \A w \in Version : Good(w)'
      BY <1>2, GoodStep
    <2>3. WithinLimits'
      <3>1. \A k \in EventKind : budget'[k] <= Budget[k]
        <4>1. Typed /\ \A k \in EventKind : budget[k] <= Budget[k] /\ Budget[k] \in Nat
          BY DEF IInv, TypeOK, SafetyInv, WithinLimits
        <4>2. QED
          BY <1>2, <4>1, BudgetShrinks
      <3>2. QED
        BY <1>2, <3>1, BusyStep, OrphansStep DEF SafetyInv, WithinLimits
    <2>4. OrphansBounded'
      BY <1>2, OrphansStep
    <2>5. QED
      BY <2>1, <2>2, <2>3, <2>4 DEF Good, SafetyInv, SyncedIsStored
  <1>3. QED
    BY <1>1, <1>2

\* The inductive invariant behind the two results that follow.
THEOREM SafetyInvariance == Spec => []SafetyInv
  <1>1. Init => Terminating
    <2>1. Init => \A v \in Version : obj[v] = Absent
      BY DEF Init
    <2>2. ~Absent.deleting
      BY DEF Absent
    <2>3. QED
      BY <2>1, <2>2 DEF Terminating
  <1>2. IInv /\ Terminating /\ SafetyInv /\ [Next]_vars => Terminating' /\ SafetyInv'
    BY StagesInv, SafetyStep DEF SafetyInv
  <1>3. QED
    BY Invariance, InitSafety, <1>1, <1>2, PTL DEF Spec

\* A Version that says it is synced can be served: for every number of
\* Versions, workers, crashes, failed calls and edits, as long as nobody else
\* removes files and no tag of a mutable Version moves, storage holds under
\* its name the archive its checksum describes.
THEOREM SyncedStored == Spec => []SyncedIsStored
  <1>1. SafetyInv => SyncedIsStored
    BY DEF SafetyInv
  <1>2. QED
    BY SafetyInvariance, <1>1, PTL

\* Only interruptions leave files behind: a failed call at most one, a crash at
\* most one per worker.
THEOREM OrphanBound == Spec => []OrphansBounded
  <1>1. SafetyInv => OrphansBounded
    BY DEF SafetyInv
  <1>2. QED
    BY SafetyInvariance, <1>1, PTL

-----------------------------------------------------------------------------
\* The semaphores

\* Labels at which a worker holds a slot.
Holding == {"fetch", "binaryScan", "sourceScan"}

\* The other steps leave the semaphores alone, and their worker holds nothing
\* before or after.
LEMMA SlotsUntouched ==
  ASSUME Typed, NEW v \in Version,
         \/ AddFinalizer(v) \/ DeleteArtifact(v) \/ RemoveFinalizer(v) \/ WriteTerminal(v)
         \/ Prepare(v) \/ FastPath(v) \/ VerifyStored(v) \/ FirstPut(v) \/ Put(v)
         \/ UpdateSpec(v) \/ ResolvePolicy(v) \/ SourceDedup(v) \/ PersistScanViolation(v)
         \/ WriteStatus(v) \/ ResetForceSync(v) \/ ApplyStored(v) \/ Reconcile(v)
         \/ FastPathFails(v) \/ CallFails(v)
  PROVE  /\ sem' = sem /\ pc[v] \notin Holding /\ pc'[v] \notin Holding
         /\ \A w \in Version \ {v} : pc'[w] = pc[w]
  <1> USE DEF Typed, Holding, Goto, Return, Requeue
  <1>1. CASE AddFinalizer(v) \/ DeleteArtifact(v) \/ RemoveFinalizer(v) \/ WriteTerminal(v) \/ Prepare(v)
    BY <1>1 DEF AddFinalizer, DeleteArtifact, RemoveFinalizer, WriteTerminal, Prepare
  <1>2. CASE FastPath(v) \/ VerifyStored(v) \/ FirstPut(v) \/ Put(v)
    BY <1>2 DEF FastPath, VerifyStored, FirstPut, Put
  <1>3. CASE UpdateSpec(v)
    BY <1>3 DEF UpdateSpec
  <1>4. CASE ResolvePolicy(v)
    BY <1>4 DEF ResolvePolicy, FirstScan
  <1>5. CASE SourceDedup(v) \/ PersistScanViolation(v)
    BY <1>5 DEF SourceDedup, PersistScanViolation
  <1>6. CASE WriteStatus(v)
    BY <1>6 DEF WriteStatus, Finish
  <1>7. CASE ResetForceSync(v)
    BY <1>7 DEF ResetForceSync, Finish
  <1>8. CASE ApplyStored(v)
    BY <1>8 DEF ApplyStored, Finish
  <1>9. CASE Reconcile(v)
    BY <1>9, BranchFacts DEF Reconcile, Branch
  <1>10. CASE FastPathFails(v) \/ CallFails(v)
    BY <1>10 DEF FastPathFails, CallFails, CallPoints
  <1>11. QED
    BY <1>1, <1>2, <1>3, <1>4, <1>5, <1>6, <1>7, <1>8, <1>9, <1>10

LEMMA SerializedStep ==
  ASSUME Typed, Serialized, Next
  PROVE  Serialized'
  <1> USE DEF Serialized
  <1>1. ASSUME NEW v \in Version, sem' = sem, pc[v] \notin Holding, pc'[v] \notin Holding,
               \A w \in Version \ {v} : pc'[w] = pc[w]
        PROVE  Serialized'
    BY <1>1 DEF Holding
  <1>2. ASSUME NEW v \in Version, Fetch(v) \/ FetchFails(v)
        PROVE  Serialized'
    <2>1. /\ pc[v] = "fetch" /\ pc'[v] \notin Holding
          /\ \A w \in Version \ {v} : pc'[w] = pc[w]
          /\ ReleaseDownload(v)
      BY <1>2 DEF Fetch, FetchFails, Goto, Requeue, Return, Typed, Holding
    <2>2. sem'.scan = sem.scan /\ sem'.download = IF IsProvider(v) THEN Nil ELSE sem.download
      BY <2>1 DEF ReleaseDownload, Typed
    <2>3. QED
      BY <2>1, <2>2 DEF Holding
  <1>3. ASSUME NEW v \in Version, AcquireDownload(v)
        PROVE  Serialized'
    <2>1. /\ pc[v] = "download" /\ pc'[v] = "fetch"
          /\ \A w \in Version \ {v} : pc'[w] = pc[w]
          /\ IsProvider(v) => sem.download = Nil
      BY <1>3 DEF AcquireDownload, Goto, Typed
    <2>2. sem'.scan = sem.scan /\ sem'.download = IF IsProvider(v) THEN v ELSE sem.download
      BY <1>3 DEF AcquireDownload, Typed
    <2>3. QED
      BY <2>1, <2>2
  <1>4. ASSUME NEW v \in Version, AcquireScan(v)
        PROVE  Serialized'
    <2>1. /\ pc[v] \notin Holding /\ pc'[v] \in {"binaryScan", "sourceScan"}
          /\ \A w \in Version \ {v} : pc'[w] = pc[w]
          /\ sem.scan = Nil /\ sem'.scan = v /\ sem'.download = sem.download
      BY <1>4 DEF AcquireScan, Goto, Typed, Holding
    <2>2. QED
      BY <2>1 DEF Holding
  <1>5. ASSUME NEW v \in Version, BinaryScan(v) \/ SourceScan(v)
        PROVE  Serialized'
    <2>1. /\ pc[v] \in {"binaryScan", "sourceScan"} /\ pc'[v] \notin Holding
          /\ \A w \in Version \ {v} : pc'[w] = pc[w]
          /\ sem'.scan = Nil /\ sem'.download = sem.download
      BY <1>5 DEF BinaryScan, SourceScan, Goto, Typed, Holding
    <2>2. QED
      BY <2>1 DEF Holding
  <1>6. CASE Crash
    <2>1. /\ \A w \in Version : pc'[w] = "idle"
          /\ sem'.download = Nil /\ sem'.scan = Nil
      BY <1>6 DEF Crash
    <2>2. QED
      BY <2>1
  <1>7. ASSUME UNCHANGED <<pc, sem>> PROVE Serialized'
    BY <1>7
  <1>8. ASSUME NEW v \in Version, TimerFires(v) \/ Operator(v) PROVE UNCHANGED <<pc, sem>>
    BY <1>8 DEF TimerFires, Operator, CreateVersion, DeleteVersion, SetForceSync, MoveUpstream
  <1>9. ASSUME (\E f \in File : LoseFile(f)) \/ EditPolicies \/ Tick \/ Restart
        PROVE  UNCHANGED <<pc, sem>>
    BY <1>9 DEF LoseFile, EditPolicies, Tick, Restart
  <1> HIDE DEF Serialized
  <1>10. QED
    BY <1>1, <1>2, <1>3, <1>4, <1>5, <1>6, <1>7, <1>8, <1>9, SlotsUntouched
       DEF Next, Controller, WorkerStep, Failure

\* downloadSem and scanSem serialise what they are for, and whatever fails and
\* however a reconcile ends, nobody keeps a slot it does not use.
THEOREM SlotsSerialized == Spec => []Serialized
  <1>1. Init => Serialized
    BY DEF Init, Serialized
  <1>2. IInv /\ Serialized /\ [Next]_vars => Serialized'
    <2> SUFFICES ASSUME IInv, Serialized, [Next]_vars PROVE Serialized'
      OBVIOUS
    <2>1. CASE UNCHANGED vars
      BY <2>1 DEF vars, Serialized
    <2>2. CASE Next
      BY <2>2, SerializedStep DEF IInv, TypeOK
    <2>3. QED
      BY <2>1, <2>2
  <1>3. QED
    BY Invariance, <1>1, <1>2, PTL DEF Spec

-----------------------------------------------------------------------------
\* The findings behind a block

\* An empty result blocks nothing.
LEMMA NothingBlocks ==
  ASSUME NEW r, NEW type, NEW findings, Blocking(r, findings, type)
  PROVE  findings # <<>>
  <1>1. ASSUME findings = <<>> PROVE FALSE
    <2>1. \A i \in DOMAIN findings : FALSE
      BY <1>1
    <2>2. Apply(r, findings, type).blocking = 0
      BY <2>1 DEF Apply
    <2>3. QED
      BY <2>2 DEF Blocking
  <1>2. QED
    BY <1>1

\* A write that reports no block, or keeps the findings of the one it reports.
Told(n, o) ==
    \/ n.message # "violation"
    \/ n.message = o.message /\ n.binaryScan = o.binaryScan /\ n.sourceScan = o.sourceScan

LEMMA ToldWrites ==
  ASSUME NEW o \in Object
  PROVE  /\ Told(o, o)
         /\ \A b : /\ Told([o EXCEPT !.finalizer = b], o)
                   /\ Told([o EXCEPT !.deleting = b], o)
                   /\ Told([o EXCEPT !.forceSync = b], o)
         /\ \A f, c : Told([o EXCEPT !.fileName = f, !.config = c], o)
         /\ Told([o EXCEPT !.message = "error"], o)
         /\ \A m \in {"terminal", "error", "ok"} : \A b : Told([o EXCEPT !.synced = b, !.message = m], o)
         /\ \A p \in Object : \A c : Told([p EXCEPT !.synced = TRUE, !.checksum = c, !.message = "ok"], o)
         /\ Told(Absent, o)
         /\ \A f, c : Told(NewVersion(f, c), o)
  BY DEF Object, Told, Absent, NewVersion

\* All steps but the two that write a block.
LEMMA ToldStep ==
  ASSUME TypeOK, NEW v \in Version,
         \/ Quiet(v) \/ Reconcile(v)
         \/ AddFinalizer(v) \/ DeleteArtifact(v) \/ RemoveFinalizer(v)
         \/ Prepare(v) \/ (Fetch(v) /\ ~Moved(v)) \/ UpdateSpec(v) \/ WriteStatus(v)
         \/ CreateVersion(v) \/ DeleteVersion(v) \/ SetForceSync(v),
         ~PersistScanViolation(v), ~ApplyStored(v)
  PROVE  Told(obj'[v], obj[v])
  <1> DEFINE o == obj[v]
  <1>0. obj \in [Version -> Object] /\ o \in Object /\ local[v] \in Worker
    BY DEF TypeOK, Typed
  <1>s. o' = o => Told(o', o)
    BY <1>0, ToldWrites
  <1>1. CASE WriteTerminal(v)
    <2>1. o' = o \/ o' = [o EXCEPT !.synced = FALSE, !.message = "terminal"]
      BY <1>0, <1>1 DEF WriteTerminal, Conflict
    <2>2. Told([o EXCEPT !.synced = FALSE, !.message = "terminal"], o)
      BY <1>0, ToldWrites
    <2>3. QED
      BY <1>s, <2>1, <2>2
  <1>2. CASE Fetch(v)
    <2>1. o' = o \/ o' = [o EXCEPT !.synced = FALSE, !.message = "error"]
      BY <1>0, <1>2 DEF Fetch, Conflict
    <2>2. Told([o EXCEPT !.synced = FALSE, !.message = "error"], o)
      BY <1>0, ToldWrites
    <2>3. QED
      BY <1>s, <2>1, <2>2
  <1>3. CASE FastPath(v) \/ VerifyStored(v) \/ FirstPut(v) \/ Put(v) \/ ResolvePolicy(v)
    BY <1>s, <1>3 DEF FastPath, VerifyStored, FirstPut, Put, ResolvePolicy, api
  <1>4. CASE BinaryScan(v) \/ SourceDedup(v) \/ SourceScan(v) \/ AcquireDownload(v) \/ AcquireScan(v)
    BY <1>s, <1>4 DEF BinaryScan, SourceDedup, SourceScan, AcquireDownload, AcquireScan, api
  <1>5. CASE ResetForceSync(v)
    <2>1. o' = o \/ o' = [o EXCEPT !.forceSync = FALSE]
      BY <1>0, <1>5 DEF ResetForceSync
    <2>2. Told([o EXCEPT !.forceSync = FALSE], o)
      BY <1>0, ToldWrites
    <2>3. QED
      BY <1>s, <2>1, <2>2
  <1>6. CASE Failure(v)
    <2>1. o' = o \/ o' = [o EXCEPT !.message = "error"]
      BY <1>0, <1>6 DEF Failure, FastPathFails, FetchFails, CallFails, Conflict, api
    <2>2. Told([o EXCEPT !.message = "error"], o)
      BY <1>0, ToldWrites
    <2>3. QED
      BY <1>s, <2>1, <2>2
  <1>7. CASE Reconcile(v) \/ DeleteArtifact(v) \/ Prepare(v)
    BY <1>s, <1>7 DEF Reconcile, DeleteArtifact, Prepare, api
  <1>8. CASE AddFinalizer(v) \/ RemoveFinalizer(v)
    <2>1. o' = o \/ o' = [o EXCEPT !.finalizer = TRUE] \/ o' = Absent
      BY <1>0, <1>8 DEF AddFinalizer, RemoveFinalizer, Conflict
    <2>2. Told([o EXCEPT !.finalizer = TRUE], o) /\ Told(Absent, o)
      BY <1>0, ToldWrites
    <2>3. QED
      BY <1>s, <2>1, <2>2
  <1>9. CASE UpdateSpec(v)
    <2>1. o' = o \/ o' = [o EXCEPT !.fileName = local[v].fileName, !.config = local[v].config]
      BY <1>0, <1>9, ZenonT(60) DEF UpdateSpec
    <2>2. Told([o EXCEPT !.fileName = local[v].fileName, !.config = local[v].config], o)
      BY <1>0, ToldWrites
    <2>3. QED
      BY <1>s, <2>1, <2>2
  <1>10. CASE WriteStatus(v)
    <2> DEFINE p == WithScans(o, local[v])
    <2>1. p \in Object
      BY <1>0, WithScansType
    <2>2. o' = o \/ o' = [p EXCEPT !.synced = TRUE, !.checksum = local[v].archive, !.message = "ok"]
      BY <1>0, <1>10 DEF WriteStatus
    <2> HIDE DEF p
    <2>3. Told([p EXCEPT !.synced = TRUE, !.checksum = local[v].archive, !.message = "ok"], o)
      BY <1>0, <2>1, ToldWrites
    <2>4. QED
      BY <1>s, <2>1, <2>2, <2>3
  <1>11. CASE CreateVersion(v)
    <2>1. PICK f, c : o' = NewVersion(f, c)
      BY <1>0, <1>11 DEF CreateVersion
    <2>2. Told(NewVersion(f, c), o)
      BY <1>0, ToldWrites
    <2>3. QED
      BY <2>1, <2>2
  <1>12. CASE DeleteVersion(v) \/ SetForceSync(v)
    <2>1. o' = Absent \/ o' = [o EXCEPT !.deleting = TRUE] \/ o' = [o EXCEPT !.forceSync = TRUE]
      BY <1>0, <1>12 DEF DeleteVersion, SetForceSync
    <2>2. Told(Absent, o) /\ Told([o EXCEPT !.deleting = TRUE], o) /\ Told([o EXCEPT !.forceSync = TRUE], o)
      BY <1>0, ToldWrites
    <2>3. QED
      BY <1>s, <2>1, <2>2
  <1>13. QED
    BY <1>1, <1>2, <1>3, <1>4, <1>5, <1>6, <1>7, <1>8, <1>9, <1>10, <1>11, <1>12 DEF Quiet

\* Only a scan, or the evaluation of stored findings, leads to a block.
LEMMA BlockLabels ==
  ASSUME TypeOK, NEW v \in Version,
         \/ Quiet(v) \/ Reconcile(v)
         \/ AddFinalizer(v) \/ DeleteArtifact(v) \/ RemoveFinalizer(v)
         \/ Prepare(v) \/ (Fetch(v) /\ ~Moved(v)) \/ UpdateSpec(v) \/ WriteStatus(v),
         ~BinaryScan(v), ~SourceScan(v), ~SourceDedup(v)
  PROVE  pc'[v] \notin {"persist", "sourceDedup"}
  <1> USE DEF TypeOK, Typed, Goto, Return, Requeue
  <1>1. CASE WriteTerminal(v) \/ FastPath(v) \/ Fetch(v) \/ VerifyStored(v) \/ FirstPut(v) \/ Put(v)
    BY <1>1 DEF WriteTerminal, FastPath, Fetch, VerifyStored, FirstPut, Put
  <1>2. CASE ResolvePolicy(v) \/ AcquireDownload(v) \/ AcquireScan(v)
    BY <1>2 DEF ResolvePolicy, FirstScan, AcquireDownload, AcquireScan
  <1>3. CASE PersistScanViolation(v) \/ ResetForceSync(v) \/ ApplyStored(v) \/ WriteStatus(v)
    BY <1>3 DEF PersistScanViolation, ResetForceSync, ApplyStored, WriteStatus, Finish
  <1>4. CASE Failure(v)
    BY <1>4 DEF Failure, FastPathFails, FetchFails, CallFails
  <1>5. CASE Reconcile(v)
    BY <1>5 DEF Reconcile, Branch
  <1>6. CASE AddFinalizer(v) \/ DeleteArtifact(v) \/ RemoveFinalizer(v) \/ Prepare(v) \/ UpdateSpec(v)
    BY <1>6 DEF AddFinalizer, DeleteArtifact, RemoveFinalizer, Prepare, UpdateSpec
  <1>7. QED
    BY <1>1, <1>2, <1>3, <1>4, <1>5, <1>6 DEF Quiet

\* Where a scan leads: to a block with findings in hand, or on.
LEMMA ScanStep ==
  ASSUME IInv, BlockedInv, NEW v \in Version, BinaryScan(v) \/ SourceScan(v) \/ SourceDedup(v)
  PROVE  /\ pc'[v] = "persist" => Explained(local'[v])
         /\ pc'[v] = "sourceDedup" => local'[v].version.sourceScan # Nil
  <1>0. Typed /\ local[v] \in Worker /\ local \in [Version -> Worker] /\ pc \in [Version -> Labels]
    BY DEF IInv, TypeOK, Typed
  <1>1. CASE BinaryScan(v)
    <2> DEFINE found == BinaryFindings[local[v].archive]
    <2>1. local[v].archive \in Checksum
      BY <1>1 DEF BinaryScan, IInv, Archived, Fetched
    <2>2. pc'[v] = "persist" =>
            Blocking(local[v].resolved, found, "binary") /\ local'[v] = [local[v] EXCEPT !.binaryScan = found]
      BY <1>0, <1>1 DEF BinaryScan, Goto
    <2>3. ASSUME pc'[v] = "persist" PROVE Explained(local'[v])
      <3>1. found # Nil /\ found # <<>>
        BY <2>1, <2>2, <2>3, NothingBlocks
      <3>2. local'[v].binaryScan = found
        <4> HIDE DEF found
        <4>1. QED
          BY <1>0, <2>2, <2>3 DEF Worker
      <3> HIDE DEF found
      <3>3. QED
        BY <3>1, <3>2 DEF Explained
    <2>4. pc'[v] = "sourceDedup" => local[v].version.sourceScan # Nil
      BY <1>0, <1>1 DEF BinaryScan, Goto
    <2>5. local'[v].version = local[v].version
      <3>1. Proceeds(v) \/ Returns(v)
        BY <1>1, QuietStep DEF Quiet, IInv
      <3>2. pc'[v] # "idle"
        BY <1>0, <1>1 DEF BinaryScan, Goto
      <3>3. QED
        BY <3>1, <3>2 DEF Proceeds, Returns
    <2>6. QED
      BY <2>3, <2>4, <2>5
  <1>2. CASE SourceScan(v)
    <2> DEFINE found == SourceFindings[local[v].archive]
    <2>1. local[v].archive \in Checksum
      BY <1>2 DEF SourceScan, IInv, Archived, Fetched
    <2>2. pc'[v] = "persist" =>
            Blocking(local[v].resolved, found, SourceType(v)) /\ local'[v] = [local[v] EXCEPT !.sourceScan = found]
      BY <1>0, <1>2 DEF SourceScan, Goto
    <2>3. ASSUME pc'[v] = "persist" PROVE Explained(local'[v])
      <3>1. found # Nil /\ found # <<>>
        BY <2>1, <2>2, <2>3, NothingBlocks
      <3>2. local'[v].sourceScan = found
        <4> HIDE DEF found
        <4>1. QED
          BY <1>0, <2>2, <2>3 DEF Worker
      <3> HIDE DEF found
      <3>3. QED
        BY <3>1, <3>2 DEF Explained
    <2>4. pc'[v] # "sourceDedup"
      BY <1>0, <1>2 DEF SourceScan, Goto
    <2>5. QED
      BY <2>3, <2>4
  <1>3. CASE SourceDedup(v)
    <2> DEFINE found == local[v].version.sourceScan
    <2>1. found # Nil
      BY <1>3 DEF SourceDedup, BlockedInv
    <2>2. /\ pc'[v] = "persist" => Blocking(local[v].resolved, found, "source")
          /\ local'[v] = [local[v] EXCEPT !.sourceScan = found]
          /\ pc'[v] # "sourceDedup"
      BY <1>0, <1>3 DEF SourceDedup, Goto
    <2>3. ASSUME pc'[v] = "persist" PROVE Explained(local'[v])
      <3>1. found # <<>>
        BY <2>2, <2>3, NothingBlocks
      <3>2. local'[v].sourceScan = found
        BY <1>0, <2>2 DEF Worker
      <3> HIDE DEF found
      <3>3. QED
        BY <2>1, <3>1, <3>2 DEF Explained
    <2>4. QED
      BY <2>2, <2>3
  <1>4. QED
    BY <1>1, <1>2, <1>3

\* The two steps that write a block write its findings with it, or find them on
\* the object.
LEMMA BlockWrites ==
  ASSUME IInv, BlockedInv, NEW v \in Version, PersistScanViolation(v) \/ ApplyStored(v)
  PROVE  obj'[v].message = "violation" => Explained(obj'[v])
  <1> DEFINE o == obj[v]
             l == local[v]
  <1>0. /\ obj \in [Version -> Object] /\ o \in Object /\ l \in Worker
        /\ o.message = "violation" => Explained(o)
    BY DEF IInv, TypeOK, Typed, BlockedInv, BlockedExplains
  <1>1. CASE PersistScanViolation(v)
    <2> DEFINE p == WithScans(o, l)
               n == [p EXCEPT !.synced = FALSE, !.message = "violation"]
    <2>1. Explained(l)
      BY <1>1 DEF PersistScanViolation, BlockedInv
    <2>2. /\ p \in Object
          /\ p.binaryScan = IF l.binaryScan # Nil THEN l.binaryScan ELSE o.binaryScan
          /\ p.sourceScan = IF l.sourceScan # Nil THEN l.sourceScan ELSE o.sourceScan
      <3>1. p \in Object
        BY <1>0, WithScansType
      <3>2. \A a, b : [o EXCEPT !.binaryScan = a, !.sourceScan = b].binaryScan = a
                   /\ [o EXCEPT !.binaryScan = a, !.sourceScan = b].sourceScan = b
        BY <1>0 DEF Object
      <3>3. QED
        BY <3>1, <3>2 DEF WithScans
    <2>3. o' = o \/ o' = n
      BY <1>0, <1>1 DEF PersistScanViolation
    <2> HIDE DEF p
    <2>4. n.binaryScan = p.binaryScan /\ n.sourceScan = p.sourceScan
      BY <2>2 DEF Object
    <2> HIDE DEF n
    <2>5. Explained(n)
      BY <2>1, <2>2, <2>4 DEF Explained
    <2>6. QED
      BY <1>0, <2>3, <2>5
  <1>2. CASE ApplyStored(v)
    <2> DEFINE n == [o EXCEPT !.synced = FALSE, !.message = "violation"]
               k == [o EXCEPT !.synced = TRUE, !.message = "ok"]
    <2>1. \/ o' = o
          \/ o' = n /\ StoredBlocks(o, l.resolved, v)
          \/ o' = k
      BY <1>0, <1>2 DEF ApplyStored
    <2>2. n.binaryScan = o.binaryScan /\ n.sourceScan = o.sourceScan /\ k.message = "ok"
      BY <1>0 DEF Object
    <2> HIDE DEF n, k
    <2>3. StoredBlocks(o, l.resolved, v) => Explained(o)
      BY NothingBlocks DEF StoredBlocks, Explained
    <2>4. Explained(o) => Explained(n)
      BY <2>2 DEF Explained
    <2>5. QED
      BY <1>0, <2>1, <2>2, <2>3, <2>4
  <1>3. QED
    BY <1>1, <1>2

LEMMA BlockedStep ==
  ASSUME IInv, BlockedInv, Next
  PROVE  BlockedInv'
  <1> DEFINE E(w) == /\ obj'[w].message = "violation" => Explained(obj'[w])
                     /\ pc'[w] = "persist" => Explained(local'[w])
                     /\ pc'[w] = "sourceDedup" => local'[w].version.sourceScan # Nil
  <1>0. TypeOK
    BY DEF IInv
  <1>1. ASSUME NEW w \in Version, obj'[w] = obj[w], pc'[w] = pc[w], local'[w] = local[w]
        PROVE  E(w)
    BY <1>1 DEF BlockedInv, BlockedExplains
  <1>2. ASSUME NEW w \in Version, Told(obj'[w], obj[w])
        PROVE  obj'[w].message = "violation" => Explained(obj'[w])
    BY <1>2 DEF Told, BlockedInv, BlockedExplains, Explained
  <1>3. ASSUME NEW v \in Version,
               \/ Quiet(v) \/ Reconcile(v)
               \/ AddFinalizer(v) \/ DeleteArtifact(v) \/ RemoveFinalizer(v)
               \/ Prepare(v) \/ (Fetch(v) /\ ~Moved(v)) \/ UpdateSpec(v) \/ WriteStatus(v)
        PROVE  E(v)
    BY <1>0, <1>2, <1>3, ToldStep, BlockLabels, ScanStep, BlockWrites
  <1>4. ASSUME NEW v \in Version, CreateVersion(v) \/ DeleteVersion(v) \/ SetForceSync(v)
        PROVE  E(v)
    <2>1. pc' = pc /\ local' = local
      BY <1>4 DEF CreateVersion, DeleteVersion, SetForceSync
    <2>2. ~PersistScanViolation(v) /\ ~ApplyStored(v)
      BY <1>0, <2>1 DEF PersistScanViolation, ApplyStored, Finish, Requeue, Return, TypeOK, Typed
    <2>3. QED
      BY <1>0, <1>2, <1>4, <2>1, <2>2, ToldStep DEF BlockedInv
  <1>5. CASE Crash
    <2>1. \A w \in Version : obj'[w] = obj[w] /\ pc'[w] = "idle"
      BY <1>5 DEF Crash, api
    <2>2. QED
      BY <2>1 DEF BlockedInv, BlockedExplains
  <1>6. CASE UNCHANGED <<obj, refs, local, pc>>
    BY <1>1, <1>6 DEF BlockedInv, BlockedExplains
  <1>7. ASSUME NEW v \in Version,
               \/ Quiet(v) \/ Reconcile(v)
               \/ AddFinalizer(v) \/ DeleteArtifact(v) \/ RemoveFinalizer(v)
               \/ Prepare(v) \/ (Fetch(v) /\ ~Moved(v)) \/ UpdateSpec(v) \/ WriteStatus(v)
               \/ CreateVersion(v) \/ DeleteVersion(v) \/ SetForceSync(v)
        PROVE  \A w \in Version : E(w)
    <2>1. E(v)
      BY <1>3, <1>4, <1>7
    <2>2. ASSUME NEW w \in Version \ {v} PROVE E(w)
      <3>1. obj'[w] = obj[w] /\ pc'[w] = pc[w] /\ local'[w] = local[w]
        BY <1>0, <1>7, OthersHold DEF Holds
      <3>2. QED
        BY <1>1, <3>1
    <2>3. QED
      BY <2>1, <2>2
  <1>8. QED
    <2>1. CASE \A w \in Version : E(w)
      BY <2>1 DEF BlockedInv, BlockedExplains
    <2>2. QED
      BY <1>5, <1>6, <1>7, <2>1, NextCases

\* A block is never without its findings: neither the flags of the pod, nor a
\* policy that changed since, nor a failed scan blocks a Version that shows
\* nothing an exemption could name.
THEOREM BlocksExplained == Spec => []BlockedExplains
  <1>1. Init => BlockedInv
    <2>1. Init => \A v \in Version : obj[v] = Absent /\ pc[v] = "idle"
      BY DEF Init
    <2>2. Absent.message # "violation"
      BY DEF Absent
    <2>3. QED
      BY <2>1, <2>2 DEF BlockedInv, BlockedExplains
  <1>2. IInv /\ BlockedInv /\ [Next]_vars => BlockedInv'
    <2> SUFFICES ASSUME IInv, BlockedInv, [Next]_vars PROVE BlockedInv'
      OBVIOUS
    <2>1. CASE UNCHANGED vars
      BY <2>1 DEF vars, BlockedInv, BlockedExplains, Explained
    <2>2. CASE Next
      BY <2>2, BlockedStep
    <2>3. QED
      BY <2>1, <2>2
  <1>3. BlockedInv => BlockedExplains
    BY DEF BlockedInv
  <1>4. QED
    BY Invariance, <1>1, <1>2, <1>3, PTL DEF Spec
=============================================================================
