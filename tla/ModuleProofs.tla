---------------------------- MODULE ModuleProofs ----------------------------
(***************************************************************************)
(* Proofs about the Module controller beside the Version controller, for   *)
(* every set of Versions, every list an operator may write, every history  *)
(* limit and every number of crashes, failed calls and edits.              *)
(***************************************************************************)
EXTENDS ModuleReconciler, VersionReconcilerProofs

USE VersionConstants, ModuleConstants DEF FileOrNil, ChecksumOrNil, Contents

-----------------------------------------------------------------------------
\* Sorted lists

\* Newer is a strict order on the places of a list, and total.
LEMMA NewerOrders ==
  ASSUME NEW s \in Seq(Version), NEW i \in DOMAIN s, NEW j \in DOMAIN s
  PROVE  /\ i \notin Newer(s, i)
         /\ i # j => i \in Newer(s, j) \/ j \in Newer(s, i)
         /\ j \in Newer(s, i) => Newer(s, j) \subseteq Newer(s, i)
  <1>1. \A k \in DOMAIN s : k \in Nat /\ Meta[s[k]].number \in Nat
    OBVIOUS
  <1>2. QED
    BY <1>1 DEF Newer

\* Every number of places below the length of a list comes after some place.
LEMMA PlaceExists ==
  ASSUME NEW s \in Seq(Version), NEW k \in Nat, k < Len(s)
  PROVE  \E i \in DOMAIN s : Cardinality(Newer(s, i)) = k
  <1> DEFINE n == Len(s)
             D == 1..n
             T == 0..(n-1)
             rank == [i \in D |-> Cardinality(Newer(s, i))]
  <1>1. n \in Nat /\ DOMAIN s = D /\ k \in T
    OBVIOUS
  <1>2. /\ IsFiniteSet(D) /\ Cardinality(D) = n
        /\ IsFiniteSet(T) /\ Cardinality(T) = n
    <2>1. n \in Int /\ n - 1 \in Int /\ 0 \in Int /\ 1 \in Int /\ n > 0
      BY <1>1
    <2> HIDE DEF n
    <2>2. IsFiniteSet(1..n) /\ Cardinality(1..n) = n
      BY ONLY <2>1, FS_Interval, SMT
    <2>3. IsFiniteSet(0..(n-1)) /\ Cardinality(0..(n-1)) = n
      BY ONLY <2>1, FS_Interval, SMT
    <2>4. QED
      BY <2>2, <2>3
  <1>3. \A i \in D : /\ IsFiniteSet(Newer(s, i))
                     /\ Cardinality(Newer(s, i)) \in T
    <2> SUFFICES ASSUME NEW i \in D
                 PROVE  IsFiniteSet(Newer(s, i)) /\ Cardinality(Newer(s, i)) \in T
      OBVIOUS
    <2>1. Newer(s, i) \in SUBSET (D \ {i})
      BY <1>1, NewerOrders DEF Newer
    <2>2. IsFiniteSet(D \ {i}) /\ Cardinality(D \ {i}) = n - 1
      <3> HIDE DEF D
      <3> QED
        BY <1>2, FS_RemoveElement
    <2>3. IsFiniteSet(Newer(s, i)) /\ Cardinality(Newer(s, i)) <= n - 1
      BY <2>1, <2>2, FS_Subset
    <2>4. QED
      BY <1>1, <2>3, FS_CardinalityType
  <1>4. \A i, j \in D : j \in Newer(s, i) => rank[i] # rank[j]
    <2> SUFFICES ASSUME NEW i \in D, NEW j \in D, j \in Newer(s, i)
                 PROVE  Cardinality(Newer(s, i)) # Cardinality(Newer(s, j))
      OBVIOUS
    <2>1. Newer(s, j) \in SUBSET Newer(s, i) /\ Newer(s, j) # Newer(s, i)
      BY <1>1, NewerOrders
    <2>2. QED
      BY <1>3, <2>1, FS_Subset
  <1>5. rank \in Injection(D, T)
    <2>1. rank \in [D -> T]
      BY <1>3
    <2>2. \A i, j \in D : rank[i] = rank[j] => i = j
      <3> HIDE DEF rank
      <3> QED
        BY <1>1, <1>4, NewerOrders
    <2> HIDE DEF rank
    <2>3. QED
      BY <2>1, <2>2 DEF Injection, IsInjective
  <1>6. rank \in Surjection(D, T)
    BY <1>2, <1>5, FS_Injection
  <1>7. \E i \in D : rank[i] = k
    BY <1>1, <1>6 DEF Surjection
  <1>8. QED
    BY <1>1, <1>7

\* GetLatestVersion returns a version of the list, the newest.
LEMMA LatestListed ==
  ASSUME NEW s \in Seq(Version), s # <<>>
  PROVE  /\ GetLatestVersion(s) \in {s[i] : i \in DOMAIN s}
         /\ \A i \in DOMAIN s : Meta[s[i]].number <= Meta[GetLatestVersion(s)].number
  <1>1. PICK i \in DOMAIN s : Cardinality(Newer(s, i)) = 0
    <2>1. Len(s) \in Nat /\ Len(s) > 0
      OBVIOUS
    <2>2. QED
      BY <2>1, PlaceExists
  <1>2. Newer(s, i) = {}
    <2>1. IsFiniteSet(DOMAIN s)
      <3>1. DOMAIN s = 1..Len(s) /\ Len(s) \in Nat
        OBVIOUS
      <3>2. QED
        BY <3>1, FS_Interval
    <2>2. IsFiniteSet(Newer(s, i))
      BY <2>1, FS_Subset DEF Newer
    <2>3. QED
      BY <1>1, <2>2, FS_EmptySet
  <1>3. \A j \in DOMAIN s : Meta[s[j]].number <= Meta[s[i]].number
    <2>1. \A j \in DOMAIN s : Meta[s[j]].number \in Nat
      OBVIOUS
    <2>2. QED
      BY <1>2, <2>1 DEF Newer
  <1>4. \E v \in {s[j] : j \in DOMAIN s} : \A j \in DOMAIN s : Meta[s[j]].number <= Meta[v].number
    BY <1>3
  <1>5. QED
    BY <1>4 DEF GetLatestVersion

\* VersionsToKeep returns as many versions as the limit says, all of the list.
LEMMA KeptListed ==
  ASSUME NEW s \in Seq(Version), HistoryLimit < Len(s)
  PROVE  /\ VersionsToKeep(s) \in Seq(Version)
         /\ Len(VersionsToKeep(s)) = HistoryLimit
         /\ {VersionsToKeep(s)[i] : i \in DOMAIN VersionsToKeep(s)} \subseteq {s[i] : i \in DOMAIN s}
  <1> DEFINE t == VersionsToKeep(s)
  <1>1. \A i \in 1..HistoryLimit : Place(s, HistoryLimit - i) \in DOMAIN s
    <2> SUFFICES ASSUME NEW i \in 1..HistoryLimit
                 PROVE  Place(s, HistoryLimit - i) \in DOMAIN s
      OBVIOUS
    <2>1. HistoryLimit - i \in Nat /\ HistoryLimit - i < Len(s)
      OBVIOUS
    <2>2. QED
      BY <2>1, PlaceExists DEF Place
  <1>2. DOMAIN t = 1..HistoryLimit /\ \A i \in 1..HistoryLimit : t[i] = s[Place(s, HistoryLimit - i)]
    BY DEF VersionsToKeep
  <1>3. t \in [1..HistoryLimit -> Version]
    BY <1>1 DEF VersionsToKeep
  <1>4. t \in Seq(Version) /\ Len(t) = HistoryLimit
    <2> HIDE DEF t
    <2>1. HistoryLimit \in Nat
      OBVIOUS
    <2> QED
      BY ONLY <1>3, <2>1
  <1>5. QED
    BY <1>1, <1>2, <1>4

-----------------------------------------------------------------------------
\* Records

\* What a write of the Module leaves of it.
LEMMA ModuleUpdate ==
  ASSUME NEW m \in ModuleRecord
  PROVE  /\ LET n == [m EXCEPT !.synced = TRUE] IN
              n \in ModuleRecord /\ n.exists = m.exists /\ n.versions = m.versions
                /\ n.latest = m.latest
         /\ LET n == [m EXCEPT !.forceSync = FALSE] IN
              n \in ModuleRecord /\ n.exists = m.exists /\ n.versions = m.versions
                /\ n.latest = m.latest
         /\ LET n == [m EXCEPT !.forceSync = TRUE] IN
              n \in ModuleRecord /\ n.exists = m.exists /\ n.versions = m.versions
                /\ n.latest = m.latest
         /\ \A s \in Seq(Version) : LET n == [m EXCEPT !.versions = s] IN
              n \in ModuleRecord /\ n.exists = m.exists /\ n.versions = s
         /\ \A s \in Seq(Version) : LET n == [m EXCEPT !.exists = TRUE, !.versions = s] IN
              n \in ModuleRecord /\ n.exists /\ n.versions = s
         /\ \A l \in Version \cup {Nil} : LET n == [m EXCEPT !.synced = TRUE, !.latest = l] IN
              n \in ModuleRecord /\ n.exists = m.exists /\ n.versions = m.versions /\ n.latest = l
  BY DEF ModuleRecord

\* What the fields of a Module are.
LEMMA ModuleFields ==
  ASSUME NEW m \in ModuleRecord
  PROVE  /\ m.exists \in BOOLEAN /\ m.versions \in Seq(Version) /\ m.forceSync \in BOOLEAN
         /\ m.latest \in Version \cup {Nil}
  BY DEF ModuleRecord

\* No Module, and an idle worker.
LEMMA NothingTyped ==
  /\ NoModule \in ModuleRecord /\ ~NoModule.exists /\ NoModule.versions = <<>>
  /\ NoRefs \in [Version -> FileOrNil]
  /\ MIdle \in ModuleLocal
  /\ MIdle.todo = <<>> /\ MIdle.doomed = {} /\ MIdle.module = NoModule /\ MIdle.refs = NoRefs
  <1>1. NoModule \in ModuleRecord /\ ~NoModule.exists /\ NoModule.versions = <<>>
    BY DEF NoModule, ModuleRecord
  <1>2. NoRefs \in [Version -> FileOrNil]
    BY DEF NoRefs
  <1>3. QED
    BY <1>1, <1>2, AbsentType DEF MIdle, ModuleLocal

\* What the fields of the worker's memory are.
LEMMA MLocalFields ==
  ASSUME NEW l \in ModuleLocal
  PROVE  /\ l.module \in ModuleRecord /\ l.todo \in Seq(Version)
         /\ l.refs \in [Version -> FileOrNil] /\ l.version \in Object
         /\ l.latest \in Version \cup {Nil} /\ l.doomed \in SUBSET Version
  BY DEF ModuleLocal

\* What a step leaves of the worker's memory.
LEMMA MLocalUpdate ==
  ASSUME NEW l \in ModuleLocal
  PROVE  /\ \A m \in ModuleRecord : LET n == [l EXCEPT !.module = m] IN
              n \in ModuleLocal /\ n.module = m /\ n.todo = l.todo /\ n.refs = l.refs
                /\ n.latest = l.latest /\ n.doomed = l.doomed /\ n.version = l.version
         /\ \A o \in Object : LET n == [l EXCEPT !.version = o] IN
              n \in ModuleLocal /\ n.module = l.module /\ n.todo = l.todo /\ n.refs = l.refs
                /\ n.latest = l.latest /\ n.doomed = l.doomed /\ n.version = o
         /\ \A s \in Seq(Version) : LET n == [l EXCEPT !.todo = s] IN
              n \in ModuleLocal /\ n.module = l.module /\ n.todo = s /\ n.refs = l.refs
                /\ n.latest = l.latest /\ n.doomed = l.doomed /\ n.version = l.version
         /\ \A v \in Version \cup {Nil} : LET n == [l EXCEPT !.latest = v] IN
              n \in ModuleLocal /\ n.module = l.module /\ n.todo = l.todo /\ n.refs = l.refs
                /\ n.latest = v /\ n.doomed = l.doomed /\ n.version = l.version
         /\ \A S \in SUBSET Version : LET n == [l EXCEPT !.doomed = S] IN
              n \in ModuleLocal /\ n.module = l.module /\ n.todo = l.todo /\ n.refs = l.refs
                /\ n.latest = l.latest /\ n.doomed = S /\ n.version = l.version
         /\ \A r \in [Version -> FileOrNil], m \in ModuleRecord :
              LET n == [l EXCEPT !.refs = r, !.module = m] IN
              n \in ModuleLocal /\ n.module = m /\ n.todo = l.todo /\ n.refs = r
                /\ n.latest = l.latest /\ n.doomed = l.doomed /\ n.version = l.version
         /\ \A m \in ModuleRecord, s \in Seq(Version) :
              LET n == [l EXCEPT !.module = m, !.todo = s] IN
              n \in ModuleLocal /\ n.module = m /\ n.todo = s /\ n.refs = l.refs
                /\ n.latest = l.latest /\ n.doomed = l.doomed /\ n.version = l.version
         /\ \A v \in Version, f \in FileOrNil, s \in Seq(Version) :
              LET n == [l EXCEPT !.refs[v] = f, !.todo = s] IN
              n \in ModuleLocal /\ n.module = l.module /\ n.todo = s
                /\ n.refs = [l.refs EXCEPT ![v] = f]
                /\ n.latest = l.latest /\ n.doomed = l.doomed /\ n.version = l.version
  BY DEF ModuleLocal

-----------------------------------------------------------------------------
\* What a step of the Version controller does to the keys

\* The steps that are not quiet have a lemma each.
LEMMA ControllerCases ==
  ASSUME NEW v \in Version, Controller(v)
  PROVE  \/ Reconcile(v) \/ TimerFires(v) \/ Quiet(v)
         \/ AddFinalizer(v) \/ DeleteArtifact(v) \/ RemoveFinalizer(v) \/ Prepare(v)
         \/ (Fetch(v) /\ ~Moved(v)) \/ UpdateSpec(v) \/ WriteStatus(v)
  BY DEF Controller, WorkerStep, Quiet

\* Nothing happens to a key.
Untouched(w) == /\ obj'[w] = obj[w] /\ local'[w] = local[w] /\ pc'[w] = pc[w]
                /\ w \in queue' <=> w \in queue

\* The return of a worker concerns its own key.
LEMMA ReturnElsewhere ==
  ASSUME Typed, NEW v \in Version, NEW w \in Version, v # w, NEW b, Return(v, b)
  PROVE  local'[w] = local[w] /\ pc'[w] = pc[w] /\ (w \in queue' <=> w \in queue)
  BY DEF Typed, Return

\* A step concerns one key; it leaves the references and the upstream alone.
LEMMA Elsewhere ==
  ASSUME TypeOK, NEW v \in Version, NEW w \in Version, v # w, Controller(v)
  PROVE  Untouched(w)
  <1> USE DEF TypeOK, Typed, Untouched, Goto, api
  <1>1. CASE \/ Reconcile(v) \/ TimerFires(v) \/ DeleteArtifact(v) \/ Prepare(v)
             \/ AcquireDownload(v) \/ AcquireScan(v)
    BY <1>1 DEF Reconcile, TimerFires, DeleteArtifact, Prepare, AcquireDownload, AcquireScan
  <1>2. CASE AddFinalizer(v) \/ RemoveFinalizer(v) \/ WriteTerminal(v)
    BY <1>2, ReturnElsewhere DEF AddFinalizer, RemoveFinalizer, WriteTerminal, Requeue, Conflict
  <1>3. CASE FastPath(v)
    BY <1>3, ReturnElsewhere DEF FastPath
  <1>4. CASE Fetch(v)
    <2>1. CASE Moved(v)
      BY <1>4, <2>1, ReturnElsewhere DEF Fetch, Requeue, Conflict
    <2>2. CASE ~Moved(v)
      BY <1>4, <2>2 DEF Fetch
    <2>3. QED
      BY <2>1, <2>2
  <1>5. CASE VerifyStored(v) \/ FirstPut(v) \/ Put(v) \/ ResolvePolicy(v) \/ SourceDedup(v)
    BY <1>5 DEF VerifyStored, FirstPut, Put, ResolvePolicy, SourceDedup
  <1>6. CASE BinaryScan(v) \/ SourceScan(v)
    BY <1>6 DEF BinaryScan, SourceScan
  <1>7. CASE UpdateSpec(v)
    <2>1. CASE obj[v].exists
      BY <1>7, <2>1 DEF UpdateSpec
    <2>2. CASE ~obj[v].exists
      BY <1>7, <2>2, ReturnElsewhere DEF UpdateSpec, Requeue
    <2>3. QED
      BY <2>1, <2>2
  <1>8. CASE PersistScanViolation(v)
    BY <1>8, ReturnElsewhere DEF PersistScanViolation, Requeue
  <1>9. CASE WriteStatus(v)
    <2>1. obj'[w] = obj[w]
      BY <1>9 DEF WriteStatus
    <2>2. CASE obj[v].exists /\ local[v].version.forceSync
      BY <1>9, <2>1, <2>2 DEF WriteStatus
    <2>3. CASE ~(obj[v].exists /\ local[v].version.forceSync)
      BY <1>9, <2>1, <2>3, ReturnElsewhere DEF WriteStatus, Requeue, Finish
    <2>4. QED
      BY <2>2, <2>3
  <1>10. CASE ResetForceSync(v)
    BY <1>10, ReturnElsewhere DEF ResetForceSync, Requeue, Finish
  <1>11. CASE ApplyStored(v)
    <2>1. obj'[w] = obj[w]
      BY <1>11 DEF ApplyStored
    <2>2. \E b : Return(v, b)
      BY <1>11 DEF ApplyStored, Requeue, Finish
    <2>3. QED
      BY <2>1, <2>2, ReturnElsewhere
  <1>12. CASE Failure(v)
    BY <1>12, ReturnElsewhere DEF Failure, FastPathFails, FetchFails, CallFails, Requeue, Conflict
  <1>13. QED
    BY <1>1, <1>2, <1>3, <1>4, <1>5, <1>6, <1>7, <1>8, <1>9, <1>10, <1>11, <1>12
    DEF Controller, WorkerStep

\* The Version controller writes no reference, moves no tag and starts no
\* process.
LEMMA ControllerFrame ==
  ASSUME TypeOK, NEW v \in Version, Controller(v)
  PROVE  refs' = refs /\ upstream' = upstream /\ up' = up
  <1> USE DEF api, world
  <1>1. CASE Reconcile(v) \/ TimerFires(v) \/ AcquireDownload(v) \/ AcquireScan(v) \/ Failure(v)
    BY <1>1 DEF Reconcile, TimerFires, AcquireDownload, AcquireScan, Failure, FastPathFails,
                FetchFails, CallFails
  <1>2. CASE AddFinalizer(v) \/ DeleteArtifact(v) \/ RemoveFinalizer(v) \/ WriteTerminal(v) \/ Prepare(v)
    BY <1>2 DEF AddFinalizer, DeleteArtifact, RemoveFinalizer, WriteTerminal, Prepare
  <1>3. CASE FastPath(v) \/ Fetch(v) \/ VerifyStored(v) \/ FirstPut(v) \/ Put(v) \/ UpdateSpec(v)
    BY <1>3 DEF FastPath, Fetch, VerifyStored, FirstPut, Put, UpdateSpec
  <1>4. CASE ResolvePolicy(v) \/ BinaryScan(v) \/ SourceScan(v) \/ SourceDedup(v)
    BY <1>4 DEF ResolvePolicy, BinaryScan, SourceScan, SourceDedup
  <1>5. CASE PersistScanViolation(v) \/ WriteStatus(v) \/ ResetForceSync(v) \/ ApplyStored(v)
    BY <1>5 DEF PersistScanViolation, WriteStatus, ResetForceSync, ApplyStored
  <1>6. QED
    BY <1>1, <1>2, <1>3, <1>4, <1>5 DEF Controller, WorkerStep

-----------------------------------------------------------------------------
\* What always holds: the Version controller's part

\* Nothing can be written on an object that is gone.
LEMMA QuietGone ==
  ASSUME TypeOK, Reading, NEW v \in Version, Quiet(v), ~obj[v].exists
  PROVE  obj'[v] = obj[v]
  <1>1. pc[v] # "idle" => local[v].version.exists
    BY DEF Reading
  <1>2. obj[v] = local[v].version => pc[v] = "idle"
    BY <1>1
  <1>3. CASE WriteTerminal(v)
    BY <1>2, <1>3 DEF WriteTerminal, Conflict
  <1>4. CASE Fetch(v) /\ Moved(v)
    BY <1>2, <1>4 DEF Fetch, Conflict
  <1>5. CASE Failure(v)
    BY <1>2, <1>5 DEF Failure, FastPathFails, FetchFails, CallFails, Conflict, api
  <1>6. CASE PersistScanViolation(v) \/ ResetForceSync(v)
    BY <1>6 DEF PersistScanViolation, ResetForceSync
  <1>7. CASE ApplyStored(v)
    BY <1>7 DEF ApplyStored
  <1>8. CASE FastPath(v) \/ VerifyStored(v) \/ FirstPut(v) \/ Put(v) \/ ResolvePolicy(v)
    BY <1>8 DEF FastPath, VerifyStored, FirstPut, Put, ResolvePolicy, api
  <1>9. CASE BinaryScan(v) \/ SourceDedup(v) \/ SourceScan(v) \/ AcquireDownload(v) \/ AcquireScan(v)
    BY <1>9 DEF BinaryScan, SourceDedup, SourceScan, AcquireDownload, AcquireScan, api
  <1>10. QED
    BY <1>3, <1>4, <1>5, <1>6, <1>7, <1>8, <1>9 DEF Quiet

\* What the base says of one Version.
KeyBase(v) ==
    /\ ~obj[v].exists => obj[v] = Absent
    /\ IF pc[v] = "idle" THEN local[v] = Idle ELSE local[v].version.exists
    /\ obj[v].checksum \in {Nil, upstream[v]}
    /\ local[v].version.checksum \in {Nil, upstream[v]}
    /\ pc[v] \in Fetched => local[v].archive = upstream[v]

LEMMA BaseByKey == Gone /\ Reading /\ FromUpstream <=> \A v \in Version : KeyBase(v)
  BY DEF Gone, Reading, FromUpstream, KeyBase

\* A reconcile that returns.
LEMMA ReturnsBase ==
  ASSUME NEW v \in Version, Returns(v), upstream' = upstream,
         ~obj'[v].exists => obj'[v] = Absent,
         obj'[v].checksum \in {Nil, upstream[v]}
  PROVE  KeyBase(v)'
  <1>1. Idle.version.checksum = Nil
    BY DEF Idle, Absent
  <1>2. QED
    BY <1>1 DEF Returns, KeyBase, Fetched

\* The steps of the Version controller keep the base.
LEMMA ControllerKeyBase ==
  ASSUME TypeOK, Reading, FromUpstream, NEW v \in Version, Controller(v)
  PROVE  KeyBase(v)'
  <1>t. /\ obj \in [Version -> Object] /\ obj[v] \in Object
        /\ local \in [Version -> Worker] /\ local[v] \in Worker
        /\ pc \in [Version -> Labels]
    BY DEF TypeOK, Typed
  <1>k. KeyBase(v)
    BY BaseByKey DEF TypeOK
  <1>u. upstream' = upstream
    BY ControllerFrame
  <1>a. Absent.checksum = Nil
    BY DEF Absent
  <1>1. CASE Reconcile(v)
    <2>1. obj' = obj /\ pc[v] = "idle" /\ pc'[v] = Branch(obj[v])
      BY <1>1, <1>t DEF Reconcile, Goto, api
    <2>2. /\ Branch(obj[v]) = "idle" => local'[v] = local[v]
          /\ Branch(obj[v]) # "idle" => local'[v].version = obj[v]
      BY <1>1, <1>t DEF Reconcile, Worker
    <2>3. Branch(obj[v]) # "idle" => obj[v].exists
      BY <1>t, BranchFacts DEF TypeOK, Gone
    <2>4. Branch(obj[v]) \notin Fetched
      BY <1>t, BranchFacts DEF TypeOK, Gone, Fetched
    <2>5. QED
      BY <1>k, <1>u, <2>1, <2>2, <2>3, <2>4 DEF KeyBase
  <1>2. CASE TimerFires(v)
    BY <1>2, <1>k DEF TimerFires, KeyBase, api, world
  <1>3. CASE Quiet(v)
    <2>1. OnlyAt(v) /\ Same(obj'[v], obj[v]) /\ (Returns(v) \/ Proceeds(v))
      BY <1>3, QuietStep
    <2>2. ~obj'[v].exists => obj'[v] = Absent
      BY <1>3, <2>1, QuietGone DEF Same, TypeOK, Gone
    <2>3. obj'[v].checksum \in {Nil, upstream[v]}
      BY <1>k, <2>1 DEF Same, KeyBase
    <2>4. CASE Returns(v)
      BY <1>u, <2>2, <2>3, <2>4, ReturnsBase
    <2>5. CASE Proceeds(v)
      <3>1. pc[v] # "idle" /\ pc'[v] # "idle"
        BY <2>5 DEF Proceeds, Working
      <3>2. QED
        BY <1>k, <1>u, <2>2, <2>3, <2>5, <3>1 DEF Proceeds, KeyBase
    <2>6. QED
      BY <2>1, <2>4, <2>5
  <1>4. CASE AddFinalizer(v)
    <2>1. Returns(v)
      BY <1>4, <1>t DEF AddFinalizer, Requeue, Return, Returns
    <2>2. \/ obj'[v] = obj[v]
          \/ obj'[v] = [obj[v] EXCEPT !.finalizer = TRUE] /\ obj[v] = local[v].version
      BY <1>4, <1>t DEF AddFinalizer, Conflict
    <2>3. local[v].version.exists
      BY <1>4, <1>k DEF AddFinalizer, KeyBase
    <2>4. obj'[v] # obj[v] => obj'[v].exists
      <3>1. [obj[v] EXCEPT !.finalizer = TRUE].exists = obj[v].exists
        BY <1>t, ObjectSets
      <3>2. QED
        BY <2>2, <2>3, <3>1
    <2>5. obj'[v].checksum = obj[v].checksum
      BY <1>t, <2>2, ObjectSets
    <2>6. QED
      BY <1>k, <1>u, <2>1, <2>4, <2>5, ReturnsBase DEF KeyBase
  <1>5. CASE DeleteArtifact(v)
    <2>1. /\ obj' = obj /\ local' = local /\ pc[v] = "deleteArtifact"
          /\ pc'[v] = "removeFinalizer"
      BY <1>5, <1>t DEF DeleteArtifact, Goto, api
    <2>2. QED
      BY <1>k, <1>u, <2>1 DEF KeyBase, Fetched
  <1>6. CASE RemoveFinalizer(v)
    <2>1. Returns(v) /\ (obj'[v] = obj[v] \/ obj'[v] = Absent)
      BY <1>6, <1>t DEF RemoveFinalizer, Return, Returns
    <2>2. QED
      BY <1>a, <1>k, <1>u, <2>1, ReturnsBase DEF KeyBase
  <1>7. CASE Prepare(v)
    <2>1. obj' = obj /\ pc[v] = "prepare" /\ pc'[v] = "fastPath"
      BY <1>7, <1>t DEF Prepare, Goto, api
    <2>2. local'[v].version = local[v].version
      <3>1. PICK f : \E c : local' = [local EXCEPT ![v].fileName = f, ![v].config = c]
        BY <1>7 DEF Prepare
      <3>2. QED
        BY <1>t, <3>1 DEF Worker
    <2>3. QED
      BY <1>k, <1>u, <2>1, <2>2 DEF KeyBase, Fetched
  <1>8. CASE Fetch(v) /\ ~Moved(v)
    <2>1. obj' = obj /\ pc[v] = "fetch" /\ pc'[v] # "idle"
      BY <1>8, <1>t DEF Fetch, Goto, api
    <2>2. local'[v].version = local[v].version /\ local'[v].archive = upstream[v]
      <3>1. PICK f : local' = [local EXCEPT ![v].archive = upstream[v], ![v].fileName = f]
        BY <1>8 DEF Fetch
      <3>2. QED
        BY <1>t, <3>1 DEF Worker
    <2>3. QED
      BY <1>k, <1>u, <2>1, <2>2 DEF KeyBase
  <1>9. CASE UpdateSpec(v)
    <2>1. CASE obj[v].exists
      <3>1. /\ local' = local /\ pc[v] = "updateSpec" /\ pc'[v] # "idle"
            /\ obj'[v] = [obj[v] EXCEPT !.fileName = local[v].fileName, !.config = local[v].config]
        BY <1>9, <1>t, <2>1, ZenonT(60) DEF UpdateSpec, Goto
      <3>2. obj'[v].exists /\ obj'[v].checksum = obj[v].checksum
        BY <1>t, <2>1, <3>1, ObjectSets
      <3>3. "updateSpec" \in Fetched
        BY DEF Fetched
      <3>4. QED
        BY <1>k, <1>u, <3>1, <3>2, <3>3 DEF KeyBase
    <2>2. CASE ~obj[v].exists
      <3>1. Returns(v) /\ obj' = obj
        BY <1>9, <1>t, <2>2 DEF UpdateSpec, Requeue, Return, Returns
      <3>2. QED
        BY <1>k, <1>u, <3>1, ReturnsBase DEF KeyBase
    <2>3. QED
      BY <2>1, <2>2
  <1>10. CASE WriteStatus(v)
    <2>0. pc[v] = "writeStatus" /\ local[v].archive = upstream[v]
      BY <1>10, <1>k DEF WriteStatus, KeyBase, Fetched
    <2>1. CASE obj[v].exists
      <3> DEFINE o == WithScans(obj[v], local[v])
      <3>1. o \in Object
        BY <1>t, WithScansType
      <3>2. o.exists
        BY <1>t, <2>1, ObjectKeeps DEF WithScans, Same
      <3>3. obj'[v] = [o EXCEPT !.synced = TRUE, !.checksum = local[v].archive, !.message = "ok"]
        BY <1>10, <1>t, <2>1 DEF WriteStatus
      <3> HIDE DEF o
      <3>4. obj'[v].exists /\ obj'[v].checksum = upstream[v]
        BY <2>0, <3>1, <3>2, <3>3, ObjectSets
      <3>5. CASE local[v].version.forceSync
        <4>1. local' = local /\ pc'[v] = "resetForceSync"
          BY <1>10, <1>t, <2>1, <3>5 DEF WriteStatus, Goto
        <4>2. QED
          BY <1>k, <1>u, <2>0, <3>4, <4>1 DEF KeyBase
      <3>6. CASE ~local[v].version.forceSync
        <4>1. Returns(v)
          BY <1>10, <1>t, <2>1, <3>6 DEF WriteStatus, Finish, Return, Returns
        <4>2. QED
          BY <1>u, <3>4, <4>1, ReturnsBase
      <3>7. QED
        BY <3>5, <3>6
    <2>2. CASE ~obj[v].exists
      <3>1. Returns(v) /\ obj' = obj
        BY <1>10, <1>t, <2>2 DEF WriteStatus, Requeue, Return, Returns
      <3>2. QED
        BY <1>k, <1>u, <3>1, ReturnsBase DEF KeyBase
    <2>3. QED
      BY <2>1, <2>2
  <1>11. QED
    BY <1>1, <1>2, <1>3, <1>4, <1>5, <1>6, <1>7, <1>8, <1>9, <1>10, ControllerCases

\* The Version controller, with its crashes and restarts, keeps the base.
VersionSide == /\ (\E v \in Version : Controller(v)) \/ Crash \/ Restart
               /\ UNCHANGED mvars

LEMMA VersionSideBase ==
  ASSUME ModuleBase, VersionSide
  PROVE  ModuleBase'
  <1>0. TypeOK /\ Typed /\ ModuleTyped /\ Reading /\ FromUpstream /\ ModuleWorker
    BY DEF ModuleBase, TypeOK
  <1>a. Archived
    BY <1>0 DEF Archived, FromUpstream, Typed
  <1>1. Typed'
    <2>1. ASSUME NEW v \in Version, Controller(v) PROVE Typed'
      BY <1>0, <1>a, <2>1, WorkerType, ReconcileType, FailureType, EnvironmentType DEF Controller
    <2>2. QED
      BY <1>0, <2>1, EnvironmentType DEF VersionSide
  <1>2. ModuleTyped' /\ ModuleWorker'
    BY <1>0 DEF VersionSide, mvars, ModuleTyped, ModuleWorker
  <1>k. \A v \in Version : KeyBase(v)
    BY <1>0, BaseByKey DEF TypeOK
  <1>3. \A w \in Version : KeyBase(w)'
    <2> SUFFICES ASSUME NEW w \in Version PROVE KeyBase(w)'
      OBVIOUS
    <2>1. ASSUME NEW v \in Version, Controller(v) PROVE KeyBase(w)'
      <3>1. CASE v = w
        BY <1>0, <2>1, <3>1, ControllerKeyBase
      <3>2. CASE v # w
        BY <1>0, <1>k, <2>1, <3>2, Elsewhere, ControllerFrame DEF Untouched, KeyBase
      <3>3. QED
        BY <3>1, <3>2
    <2>2. CASE Crash
      <3>1. Returns(w) /\ obj' = obj /\ upstream' = upstream
        BY <2>2 DEF Crash, Returns, api
      <3>2. QED
        BY <1>k, <3>1, ReturnsBase DEF KeyBase
    <2>3. CASE Restart
      BY <1>k, <2>3 DEF Restart, KeyBase, api, world
    <2>4. QED
      BY <2>1, <2>2, <2>3 DEF VersionSide
  <1>4. (Gone /\ Reading /\ FromUpstream)'
    BY <1>3, BaseByKey DEF Gone, Reading, FromUpstream, KeyBase
  <1>5. QED
    BY <1>1, <1>2, <1>4 DEF ModuleBase, TypeOK

-----------------------------------------------------------------------------
\* What always holds: the Module controller's part

\* What versionForModule leaves of an object.
LEMMA RewrittenFacts ==
  ASSUME NEW o \in Object
  PROVE  LET n == Rewritten(o) IN
         /\ n \in Object
         /\ o.deleting => n = Absent
         /\ ~o.deleting => /\ n.exists = o.exists /\ ~n.finalizer /\ ~n.deleting
                           /\ n.fileName = o.fileName /\ n.checksum = o.checksum
                           /\ n.synced = o.synced /\ n.config = "given" /\ ~n.forceSync
  BY AbsentType DEF Rewritten, Object

\* What a Delete leaves of an object.
LEMMA DeletedFacts ==
  ASSUME NEW o \in Object
  PROVE  LET n == Deleted(o) IN
         /\ n \in Object
         /\ ~o.finalizer => n = Absent
         /\ o.finalizer => /\ n.exists = o.exists /\ n.finalizer /\ n.deleting
                           /\ n.fileName = o.fileName /\ n.checksum = o.checksum
                           /\ n.synced = o.synced /\ n.config = o.config
                           /\ n.forceSync = o.forceSync
  BY AbsentType DEF Deleted, Object

\* A Version as the Module controller creates it.
LEMMA NewVersionFacts ==
  ASSUME NEW f \in FileOrNil
  PROVE  LET n == NewVersion(f, "given") IN
         /\ n \in Object /\ n.exists /\ ~n.finalizer /\ ~n.deleting /\ n.fileName = f
         /\ n.checksum = Nil /\ ~n.synced /\ n.config = "given" /\ ~n.forceSync
  BY AbsentType DEF NewVersion, Absent, Object

LEMMA AbsentObject ==
  /\ Absent \in Object /\ ~Absent.exists /\ ~Absent.finalizer /\ ~Absent.deleting
  /\ Absent.fileName = Nil /\ Absent.checksum = Nil /\ ~Absent.synced
  /\ Absent.config = "given" /\ ~Absent.forceSync
  BY AbsentType DEF Absent

\* The first version of the loop and the ones after it.
LEMMA LoopHead ==
  ASSUME ModuleTyped, ModuleWorker, mpc \in Loop
  PROVE  /\ mlocal.todo \in Seq(Version) /\ mlocal.todo # <<>> /\ mup
         /\ Head(mlocal.todo) \in Version /\ Tail(mlocal.todo) \in Seq(Version)
  <1>1. mlocal.todo \in Seq(Version) /\ mlocal.todo # <<>>
    BY MLocalFields DEF ModuleTyped, ModuleWorker
  <1>2. QED
    BY <1>1 DEF ModuleWorker, ModuleTyped, Loop

\* The base is kept by a step that changes at most one object, in the way its
\* conditions allow, and leaves the workers of the Version controller alone.
LEMMA ModuleObject ==
  ASSUME ModuleBase, NEW v \in Version, NEW o \in Object, obj' = [obj EXCEPT ![v] = o],
         ~o.exists => o = Absent, o.checksum \in {Nil, obj[v].checksum},
         refs' \in [Version -> FileOrNil], queue' \subseteq Version, UNCHANGED others
  PROVE  TypeOK' /\ Reading' /\ FromUpstream'
  <1>0. Typed /\ Gone /\ Reading /\ FromUpstream
    BY DEF ModuleBase, TypeOK
  <1>1. Typed'
    BY <1>0 DEF Typed, others, world
  <1>2. \A w \in Version : obj'[w] = IF w = v THEN o ELSE obj[w]
    BY <1>0 DEF Typed
  <1>3. Gone'
    BY <1>0, <1>2 DEF Gone
  <1>4. Reading' /\ FromUpstream'
    BY <1>0, <1>2 DEF Reading, FromUpstream, others, world
  <1>5. QED
    BY <1>1, <1>3, <1>4 DEF TypeOK

\* A step that changes no object at all.
LEMMA ModuleNoObject ==
  ASSUME ModuleBase, UNCHANGED <<obj, queue, others>>, refs' \in [Version -> FileOrNil]
  PROVE  TypeOK' /\ Reading' /\ FromUpstream'
  BY DEF ModuleBase, TypeOK, Typed, Gone, Reading, FromUpstream, others, world

\* The worker of the Module controller returns.
LEMMA MReturnBase ==
  ASSUME ModuleTyped, ModuleWorker, NEW b \in BOOLEAN, MReturn(b), mup' = mup, mpc # "idle",
         module' \in ModuleRecord, mbudget' \in [ModuleEvent -> Nat]
  PROVE  ModuleTyped' /\ ModuleWorker'
  <1>1. mpc' = "idle" /\ mlocal' = MIdle /\ mqueue' \in BOOLEAN /\ mup
    BY DEF MReturn, ModuleTyped, ModuleWorker
  <1>2. QED
    BY <1>1, NothingTyped DEF ModuleTyped, ModuleWorker, Loop

\* Where the loop goes on, it has something to do.
LEMMA RoundFacts ==
  ASSUME NEW s
  PROVE  /\ Round(s) \in {"latest", "get"}
         /\ Round(s) \in Loop <=> s # <<>>
         /\ Round(s) \notin {"idle", "create", "update", "trim"}
  BY DEF Round, Loop

\* An event of the Module uses up its budget.
LEMMA MSpendType ==
  ASSUME ModuleTyped, NEW k \in ModuleEvent, MSpend(k)
  PROVE  /\ mbudget' \in [ModuleEvent -> Nat]
         /\ mbudget'[k] = mbudget[k] - 1
         /\ \A j \in ModuleEvent \ {k} : mbudget'[j] = mbudget[j]
  BY DEF ModuleTyped, MSpend

\* The step to the loop.
LEMMA ModuleReconcileBase ==
  ASSUME ModuleBase, ModuleReconcile
  PROVE  ModuleBase'
  <1>0. TypeOK /\ ModuleTyped /\ ModuleWorker /\ Typed
    BY DEF ModuleBase, TypeOK
  <1>1. (TypeOK /\ Reading /\ FromUpstream)'
    BY <1>0, ModuleNoObject DEF ModuleReconcile, vars, others, world, Typed
  <1>2. CASE module.exists
    <2>1. /\ mpc' = Round(module.versions) /\ mqueue' = FALSE /\ mup' = mup /\ mup
          /\ mlocal' = [MIdle EXCEPT !.module = module, !.todo = module.versions]
          /\ module' = module /\ mbudget' = mbudget
      BY <1>2 DEF ModuleReconcile
    <2>2. mlocal' \in ModuleLocal /\ mlocal'.todo = module.versions /\ mlocal'.doomed = {}
      <3>1. module \in ModuleRecord /\ module.versions \in Seq(Version) /\ MIdle \in ModuleLocal
              /\ MIdle.doomed = {}
        BY <1>0, NothingTyped, ModuleFields DEF ModuleTyped
      <3>2. QED
        BY ONLY <2>1, <3>1 DEF ModuleLocal
    <2>3. QED
      BY <1>0, <1>1, <2>1, <2>2, RoundFacts
      DEF ModuleBase, ModuleTyped, ModuleWorker, Loop, After
  <1>3. CASE ~module.exists
    BY <1>0, <1>1, <1>3 DEF ModuleReconcile, ModuleBase, ModuleTyped, ModuleWorker
  <1>4. QED
    BY <1>2, <1>3

LEMMA GetVersionBase ==
  ASSUME ModuleBase, GetVersion
  PROVE  ModuleBase'
  <1>0. TypeOK /\ ModuleTyped /\ ModuleWorker /\ Typed /\ mpc \in Loop /\ mpc = "get"
    BY DEF ModuleBase, TypeOK, GetVersion, Loop
  <1>1. (TypeOK /\ Reading /\ FromUpstream)'
    BY <1>0, ModuleNoObject DEF GetVersion, vars, others, world, Typed
  <1>h. Head(mlocal.todo) \in Version /\ mlocal.todo # <<>> /\ mup
    BY <1>0, LoopHead
  <1>2. /\ mpc' \in {"update", "refs"} /\ mqueue' = mqueue /\ mup' = mup /\ module' = module
        /\ mlocal' \in ModuleLocal /\ mlocal'.todo = mlocal.todo /\ mlocal'.doomed = mlocal.doomed
        /\ mpc' = "update" => mlocal'.version.exists
        /\ mbudget' \in [ModuleEvent -> Nat]
    <2>1. obj[Head(mlocal.todo)] \in Object
      BY <1>0, <1>h DEF Typed
    <2>2. \/ mlocal' = mlocal /\ mpc' = "refs"
          \/ /\ mlocal' = [mlocal EXCEPT !.version = obj[Head(mlocal.todo)]]
             /\ obj[Head(mlocal.todo)].exists
      BY DEF GetVersion
    <2>3. /\ mlocal' \in ModuleLocal /\ mlocal'.todo = mlocal.todo /\ mlocal'.doomed = mlocal.doomed
          /\ mpc' = "update" => mlocal'.version.exists
      <3>1. mlocal \in ModuleLocal
        BY <1>0 DEF ModuleTyped
      <3>2. QED
        BY ONLY <2>1, <2>2, <3>1 DEF ModuleLocal
    <2>4. mbudget' \in [ModuleEvent -> Nat]
      BY <1>0, MSpendType DEF GetVersion, ModuleTyped, ModuleEvent
    <2>5. QED
      BY <2>3, <2>4 DEF GetVersion
  <1>3. QED
    BY <1>0, <1>1, <1>h, <1>2 DEF ModuleBase, ModuleTyped, ModuleWorker, Loop, After

\* A new name changes the references, so that another reconcile follows.
LEMMA WriteRefsFacts ==
  ASSUME ModuleBase, WriteRefs, module.exists
  PROVE  \E f \in NewNames :
            LET v == Head(mlocal.todo)
                r == [mlocal.refs EXCEPT ![v] = f]
                m == [module EXCEPT !.synced = TRUE]
            IN  /\ f \in File /\ refs' = r /\ module' = m /\ mqueue' = TRUE
                /\ mlocal' = [mlocal EXCEPT !.refs = r, !.module = m]
                /\ mpc' = "create" /\ mup' = mup /\ mbudget' = mbudget
                /\ UNCHANGED <<obj, queue, others>>
  <1> DEFINE v == Head(mlocal.todo)
             m == [module EXCEPT !.synced = TRUE]
  <1>0. TypeOK /\ Typed /\ ModuleTyped /\ ModuleWorker /\ mpc \in Loop
    BY DEF ModuleBase, TypeOK, WriteRefs, Loop
  <1>h. v \in Version /\ mup
    BY <1>0, LoopHead
  <1>1. PICK f \in {g \in NewNames : g = CHOOSE h \in NewNames : TRUE} :
           LET r == [mlocal.refs EXCEPT ![v] = f]
           IN  /\ refs' = r
               /\ module' = m
               /\ mqueue' = (mqueue \/ Changed(m, r))
               /\ mlocal' = [mlocal EXCEPT !.refs = r, !.module = m]
               /\ mpc' = "create"
    BY DEF WriteRefs
  <1>2. f \in NewNames /\ f \in File /\ refs[v] # f
    BY <1>1, <1>h DEF NewNames, Unused
  <1>3. mlocal.refs \in [Version -> FileOrNil]
    BY <1>0, MLocalFields DEF ModuleTyped
  <1>4. [mlocal.refs EXCEPT ![v] = f][v] = f
    BY <1>3, <1>h
  <1>5. mqueue' = TRUE
    <2>1. [mlocal.refs EXCEPT ![v] = f] # refs
      BY <1>2, <1>4
    <2>2. QED
      BY <1>1, <1>h, <2>1 DEF Changed
  <1>6. QED
    BY <1>1, <1>2, <1>5 DEF WriteRefs

LEMMA WriteRefsBase ==
  ASSUME ModuleBase, WriteRefs
  PROVE  ModuleBase'
  <1>0. TypeOK /\ Typed /\ ModuleTyped /\ ModuleWorker /\ mpc \in Loop /\ mpc # "idle"
    BY DEF ModuleBase, TypeOK, WriteRefs, Loop
  <1>h. Head(mlocal.todo) \in Version /\ mlocal.todo # <<>> /\ mup
    BY <1>0, LoopHead
  <1>1. CASE module.exists
    <2> DEFINE v == Head(mlocal.todo)
               m == [module EXCEPT !.synced = TRUE]
    <2>1. PICK f \in NewNames :
             LET r == [mlocal.refs EXCEPT ![v] = f]
             IN  /\ f \in File /\ refs' = r /\ module' = m /\ mqueue' = TRUE
                 /\ mlocal' = [mlocal EXCEPT !.refs = r, !.module = m]
                 /\ mpc' = "create" /\ mup' = mup /\ mbudget' = mbudget
                 /\ UNCHANGED <<obj, queue, others>>
      BY <1>1, WriteRefsFacts
    <2>2. [mlocal.refs EXCEPT ![v] = f] \in [Version -> FileOrNil]
      BY <1>0, <2>1, MLocalFields DEF ModuleTyped
    <2>3. m \in ModuleRecord
      BY <1>0, ModuleUpdate DEF ModuleTyped
    <2> HIDE DEF m
    <2>4. mlocal' \in ModuleLocal /\ mlocal'.todo = mlocal.todo /\ mlocal'.doomed = mlocal.doomed
      <3>1. mlocal \in ModuleLocal
        BY <1>0 DEF ModuleTyped
      <3>2. QED
        BY ONLY <2>1, <2>2, <2>3, <3>1 DEF ModuleLocal
    <2>5. (TypeOK /\ Reading /\ FromUpstream)'
      BY <2>1, <2>2, ModuleNoObject
    <2>6. QED
      BY <1>0, <1>h, <2>1, <2>3, <2>4, <2>5
      DEF ModuleBase, ModuleTyped, ModuleWorker, Loop, After
  <1>2. CASE ~module.exists
    <2>1. /\ MReturn(TRUE) /\ UNCHANGED <<module, refs, obj, queue, others, mup, mbudget>>
      BY <1>2 DEF WriteRefs
    <2>2. (TypeOK /\ Reading /\ FromUpstream)'
      BY <1>0, <2>1, ModuleNoObject DEF Typed
    <2>3. QED
      BY <1>0, <2>1, <2>2, MReturnBase DEF ModuleBase, ModuleTyped
  <1>3. QED
    BY <1>1, <1>2

\* The events of the Versions reach the queue of a running controller.
LEMMA NotifyType ==
  ASSUME Typed, NEW S \in SUBSET Version, Notify(S)
  PROVE  queue' \subseteq Version
  BY DEF Typed, Notify

LEMMA CreateOwnedBase ==
  ASSUME ModuleBase, CreateOwned
  PROVE  ModuleBase'
  <1> DEFINE v == Head(mlocal.todo)
             n == NewVersion(mlocal.refs[v], "given")
  <1>0. TypeOK /\ Typed /\ ModuleTyped /\ ModuleWorker /\ mpc \in Loop /\ mpc # "idle"
    BY DEF ModuleBase, TypeOK, CreateOwned, Loop
  <1>h. v \in Version /\ mlocal.todo # <<>> /\ mup /\ Tail(mlocal.todo) \in Seq(Version)
    BY <1>0, LoopHead
  <1>n. n \in Object /\ n.exists /\ n.checksum = Nil
    <2>1. mlocal.refs[v] \in FileOrNil
      BY <1>0, <1>h, MLocalFields DEF ModuleTyped
    <2>2. QED
      BY <2>1, NewVersionFacts
  <1>1. /\ UNCHANGED others /\ refs' = refs /\ module' = module /\ mup' = mup /\ mqueue' = mqueue
        /\ mlocal' = [mlocal EXCEPT !.todo = Tail(mlocal.todo)]
        /\ mpc' = Round(Tail(mlocal.todo))
        /\ \/ obj' = obj
           \/ obj' = [obj EXCEPT ![v] = n] /\ ~obj[v].exists
    BY DEF CreateOwned
  <1>2. queue' \subseteq Version /\ mbudget' \in [ModuleEvent -> Nat]
    BY <1>0, <1>h, MSpendType DEF CreateOwned, Notify, Typed, ModuleTyped, ModuleEvent
  <1>3. (TypeOK /\ Reading /\ FromUpstream)'
    <2>1. \E o \in Object : /\ obj' = [obj EXCEPT ![v] = o]
                            /\ ~o.exists => o = Absent
                            /\ o.checksum \in {Nil, obj[v].checksum}
      <3>1. CASE obj' = obj
        <4>1. obj[v] \in Object /\ obj' = [obj EXCEPT ![v] = obj[v]]
          BY <1>0, <1>h, <3>1 DEF Typed
        <4>2. QED
          BY <1>0, <1>h, <4>1 DEF TypeOK, Gone
      <3>2. CASE obj' = [obj EXCEPT ![v] = n]
        BY <1>n, <3>2
      <3>3. QED
        BY <1>1, <3>1, <3>2
    <2>2. refs' \in [Version -> FileOrNil]
      BY <1>0, <1>1 DEF Typed
    <2> HIDE DEF n, v
    <2>3. QED
      BY <1>1, <1>2, <1>h, <2>1, <2>2, ModuleObject
  <1>4. mlocal' \in ModuleLocal /\ mlocal'.todo = Tail(mlocal.todo) /\ mlocal'.doomed = mlocal.doomed
    <2>1. mlocal \in ModuleLocal
      BY <1>0 DEF ModuleTyped
    <2>2. QED
      BY ONLY <1>1, <1>h, <2>1 DEF ModuleLocal
  <1>5. QED
    BY <1>0, <1>h, <1>1, <1>2, <1>3, <1>4, RoundFacts
    DEF ModuleBase, ModuleTyped, ModuleWorker, Loop, After

LEMMA UpdateOwnedBase ==
  ASSUME ModuleBase, UpdateOwned
  PROVE  ModuleBase'
  <1> DEFINE v == Head(mlocal.todo)
             o == mlocal.version
             n == Rewritten(o)
  <1>0. TypeOK /\ Typed /\ ModuleTyped /\ ModuleWorker /\ mpc \in Loop /\ mpc # "idle"
    BY DEF ModuleBase, TypeOK, UpdateOwned, Loop
  <1>h. v \in Version /\ mlocal.todo # <<>> /\ mup /\ Tail(mlocal.todo) \in Seq(Version)
    BY <1>0, LoopHead
  <1>f. refs' = refs /\ UNCHANGED others /\ module' = module /\ mup' = mup /\ mbudget' = mbudget
    BY DEF UpdateOwned
  <1>r. refs' \in [Version -> FileOrNil] /\ o \in Object
    BY <1>0, <1>f, MLocalFields DEF Typed, ModuleTyped
  <1>1. CASE obj[v] = o
    <2>1. /\ obj' = [obj EXCEPT ![v] = n]
          /\ mlocal' = [mlocal EXCEPT !.refs[v] = o.fileName, !.todo = Tail(mlocal.todo)]
          /\ mpc' = Round(Tail(mlocal.todo)) /\ mqueue' = mqueue
      BY <1>1 DEF UpdateOwned
    <2>2. queue' \subseteq Version
      BY <1>0, <1>1, <1>h DEF UpdateOwned, Notify, Typed
    <2>3. n \in Object /\ (~n.exists => n = Absent) /\ n.checksum \in {Nil, obj[v].checksum}
      <3>1. CASE o.deleting
        BY <1>r, <3>1, RewrittenFacts, AbsentObject
      <3>2. CASE ~o.deleting
        <4>1. n \in Object /\ n.exists = o.exists /\ n.checksum = o.checksum
          BY <1>r, <3>2, RewrittenFacts
        <4>3. n.exists
          BY <1>0, <4>1 DEF UpdateOwned, ModuleWorker
        <4>4. QED
          BY <1>1, <4>1, <4>3
      <3>3. QED
        BY <3>1, <3>2
    <2>4. (TypeOK /\ Reading /\ FromUpstream)'
      <3> HIDE DEF n, v
      <3> QED
        BY <1>f, <1>h, <1>r, <2>1, <2>2, <2>3, ModuleObject
    <2>5. mlocal' \in ModuleLocal /\ mlocal'.todo = Tail(mlocal.todo) /\ mlocal'.doomed = mlocal.doomed
      <3>1. mlocal \in ModuleLocal /\ o.fileName \in FileOrNil
        BY <1>0, <1>r DEF ModuleTyped, Object
      <3> HIDE DEF v, o
      <3>2. QED
        BY ONLY <2>1, <1>h, <3>1 DEF ModuleLocal
    <2>6. QED
      BY <1>0, <1>f, <1>h, <2>1, <2>4, <2>5, RoundFacts
      DEF ModuleBase, ModuleTyped, ModuleWorker, Loop, After
  <1>2. CASE obj[v] # o
    <2>1. MReturn(TRUE) /\ UNCHANGED <<obj, queue>>
      BY <1>2 DEF UpdateOwned
    <2>2. (TypeOK /\ Reading /\ FromUpstream)'
      BY <1>f, <1>r, <2>1, ModuleNoObject
    <2>3. QED
      BY <1>0, <1>f, <2>1, <2>2, MReturnBase DEF ModuleBase, ModuleTyped
  <1>3. QED
    BY <1>1, <1>2

\* The steps after the loop that touch no Version.
LEMMA LatestBase ==
  ASSUME ModuleBase, Latest
  PROVE  ModuleBase'
  <1> DEFINE s == mlocal.module.versions
  <1>0. TypeOK /\ Typed /\ ModuleTyped /\ ModuleWorker /\ mpc = "latest"
    BY DEF ModuleBase, TypeOK, Latest
  <1>1. (TypeOK /\ Reading /\ FromUpstream)'
    BY <1>0, ModuleNoObject DEF Latest, vars, others, world, Typed
  <1>2. CASE s = <<>> \/ HistoryLimit > Len(s)
    <2>1. MReturn(TRUE) /\ module' = module /\ mup' = mup /\ mbudget' = mbudget
      BY <1>2 DEF Latest
    <2>2. QED
      BY <1>0, <1>1, <2>1, MReturnBase DEF ModuleBase, ModuleTyped
  <1>3. CASE ~(s = <<>> \/ HistoryLimit > Len(s))
    <2>1. /\ mlocal' = [mlocal EXCEPT !.latest = GetLatestVersion(s)]
          /\ mpc' \in {"trim", "reset", "status"}
          /\ mpc' = "trim" => HistoryLimit < Len(s)
          /\ mqueue' = mqueue /\ module' = module /\ mup' = mup /\ mbudget' = mbudget
      BY <1>3 DEF Latest, AfterTrim
    <2>2. mlocal \in ModuleLocal /\ s \in Seq(Version)
      BY <1>0, MLocalFields, ModuleFields DEF ModuleTyped
    <2>3. GetLatestVersion(s) \in Version
      BY <1>3, <2>2, LatestListed
    <2>4. /\ mlocal' \in ModuleLocal /\ mlocal'.todo = mlocal.todo
          /\ mlocal'.doomed = mlocal.doomed /\ mlocal'.module = mlocal.module
      <3> HIDE DEF s
      <3> QED
        BY ONLY <2>1, <2>2, <2>3 DEF ModuleLocal
    <2>5. QED
      BY <1>0, <1>1, <2>1, <2>4 DEF ModuleBase, ModuleTyped, ModuleWorker, Loop, After
  <1>4. QED
    BY <1>2, <1>3

LEMMA TrimBase ==
  ASSUME ModuleBase, Trim
  PROVE  ModuleBase'
  <1> DEFINE t == VersionsToKeep(mlocal.module.versions)
             m == [module EXCEPT !.versions = t]
  <1>0. TypeOK /\ Typed /\ ModuleTyped /\ ModuleWorker /\ mpc = "trim"
    BY DEF ModuleBase, TypeOK, Trim
  <1>1. (TypeOK /\ Reading /\ FromUpstream)'
    BY <1>0, ModuleNoObject DEF Trim, vars, others, world, Typed
  <1>2. CASE module.exists
    <2>1. /\ module' = m /\ mqueue' \in BOOLEAN
          /\ mlocal' = [mlocal EXCEPT !.module = m]
          /\ mpc' \in {"reset", "status"} /\ mup' = mup /\ mbudget' = mbudget /\ mup
      BY <1>0, <1>2 DEF Trim, AfterTrim, ModuleTyped, ModuleWorker, Changed
    <2>2. mlocal \in ModuleLocal /\ t \in Seq(Version)
      <3>1. mlocal \in ModuleLocal /\ mlocal.module.versions \in Seq(Version)
        BY <1>0, MLocalFields, ModuleFields DEF ModuleTyped
      <3>2. QED
        BY <1>0, <3>1, KeptListed DEF ModuleWorker
    <2>3. m \in ModuleRecord
      <3> HIDE DEF t
      <3> QED
        BY <1>0, <2>2, ModuleUpdate DEF ModuleTyped
    <2> HIDE DEF m
    <2>4. mlocal' \in ModuleLocal /\ mlocal'.todo = mlocal.todo /\ mlocal'.doomed = mlocal.doomed
      BY ONLY <2>1, <2>2, <2>3 DEF ModuleLocal
    <2>5. QED
      BY <1>0, <1>1, <2>1, <2>3, <2>4 DEF ModuleBase, ModuleTyped, ModuleWorker, Loop, After
  <1>3. CASE ~module.exists
    <2>1. MReturn(TRUE) /\ module' = module /\ mup' = mup /\ mbudget' = mbudget
      BY <1>3 DEF Trim
    <2>2. QED
      BY <1>0, <1>1, <2>1, MReturnBase DEF ModuleBase, ModuleTyped
  <1>4. QED
    BY <1>2, <1>3

LEMMA ModuleResetBase ==
  ASSUME ModuleBase, ModuleResetForceSync
  PROVE  ModuleBase'
  <1>0. TypeOK /\ Typed /\ ModuleTyped /\ ModuleWorker /\ mpc = "reset"
    BY DEF ModuleBase, TypeOK, ModuleResetForceSync
  <1>1. (TypeOK /\ Reading /\ FromUpstream)'
    BY <1>0, ModuleNoObject DEF ModuleResetForceSync, vars, others, world, Typed
  <1>2. CASE module.exists
    <2>1. /\ module' = [module EXCEPT !.forceSync = FALSE] /\ mqueue' \in BOOLEAN
          /\ mlocal' = mlocal /\ mpc' = "status" /\ mup' = mup /\ mbudget' = mbudget /\ mup
      BY <1>0, <1>2 DEF ModuleResetForceSync, ModuleTyped, ModuleWorker, Changed
    <2>2. module' \in ModuleRecord
      BY <1>0, <2>1, ModuleUpdate DEF ModuleTyped
    <2>3. QED
      BY <1>0, <1>1, <2>1, <2>2 DEF ModuleBase, ModuleTyped, ModuleWorker, Loop, After
  <1>3. CASE ~module.exists
    <2>1. MReturn(TRUE) /\ module' = module /\ mup' = mup /\ mbudget' = mbudget
      BY <1>3 DEF ModuleResetForceSync
    <2>2. QED
      BY <1>0, <1>1, <2>1, MReturnBase DEF ModuleBase, ModuleTyped
  <1>4. QED
    BY <1>2, <1>3

LEMMA ModuleStatusBase ==
  ASSUME ModuleBase, ModuleStatus
  PROVE  ModuleBase'
  <1> DEFINE m == [module EXCEPT !.synced = TRUE, !.latest = mlocal.latest]
  <1>0. TypeOK /\ Typed /\ ModuleTyped /\ ModuleWorker /\ mpc = "status"
    BY DEF ModuleBase, TypeOK, ModuleStatus
  <1>l. mlocal \in ModuleLocal /\ mlocal.latest \in Version \cup {Nil}
        /\ mlocal.refs \in [Version -> FileOrNil] /\ module \in ModuleRecord
    BY <1>0, MLocalFields DEF ModuleTyped
  <1>f. UNCHANGED <<obj, queue, others, mup, mbudget>>
    BY DEF ModuleStatus
  <1>2. CASE module.exists
    <2>1. /\ module' = m /\ mqueue' \in BOOLEAN /\ refs' = mlocal.refs
          /\ mlocal' = [mlocal EXCEPT !.module = m] /\ mpc' = "list" /\ mup
      BY <1>0, <1>2 DEF ModuleStatus, ModuleTyped, ModuleWorker, Changed
    <2>2. m \in ModuleRecord
      BY <1>l, ModuleUpdate
    <2> HIDE DEF m
    <2>3. mlocal' \in ModuleLocal /\ mlocal'.todo = mlocal.todo /\ mlocal'.doomed = mlocal.doomed
      BY ONLY <1>l, <2>1, <2>2 DEF ModuleLocal
    <2>4. (TypeOK /\ Reading /\ FromUpstream)'
      BY <1>f, <1>l, <2>1, ModuleNoObject
    <2>5. QED
      BY <1>0, <1>f, <2>1, <2>2, <2>3, <2>4 DEF ModuleBase, ModuleTyped, ModuleWorker, Loop, After
  <1>3. CASE ~module.exists
    <2>1. MReturn(TRUE) /\ UNCHANGED <<module, refs>>
      BY <1>3 DEF ModuleStatus
    <2>2. (TypeOK /\ Reading /\ FromUpstream)'
      BY <1>0, <1>f, <2>1, ModuleNoObject DEF Typed
    <2>3. QED
      BY <1>0, <1>f, <2>1, <2>2, MReturnBase DEF ModuleBase, ModuleTyped
  <1>4. QED
    BY <1>2, <1>3

LEMMA ListOwnedBase ==
  ASSUME ModuleBase, ListOwned
  PROVE  ModuleBase'
  <1> DEFINE doomed == {v \in Version : obj[v].exists} \ Listed(mlocal.module)
  <1>0. TypeOK /\ Typed /\ ModuleTyped /\ ModuleWorker /\ mpc = "list"
    BY DEF ModuleBase, TypeOK, ListOwned
  <1>1. (TypeOK /\ Reading /\ FromUpstream)'
    BY <1>0, ModuleNoObject DEF ListOwned, vars, others, world, Typed
  <1>2. CASE doomed # {}
    <2>1. /\ mlocal' = [mlocal EXCEPT !.doomed = doomed] /\ mpc' = "delete"
          /\ UNCHANGED <<module, mup, mqueue, mbudget>>
      BY <1>2 DEF ListOwned
    <2>2. mlocal \in ModuleLocal /\ doomed \in SUBSET Version
      BY <1>0 DEF ModuleTyped
    <2> HIDE DEF doomed
    <2>3. mlocal' \in ModuleLocal /\ mlocal'.todo = mlocal.todo
      BY ONLY <2>1, <2>2 DEF ModuleLocal
    <2>4. QED
      BY <1>0, <1>1, <2>1, <2>3 DEF ModuleBase, ModuleTyped, ModuleWorker, Loop, After
  <1>3. CASE doomed = {}
    <2>1. MReturn(FALSE) /\ UNCHANGED <<module, mup, mbudget>>
      BY <1>3 DEF ListOwned
    <2>2. QED
      BY <1>0, <1>1, <2>1, MReturnBase DEF ModuleBase, ModuleTyped
  <1>4. QED
    BY <1>2, <1>3

LEMMA DeleteOwnedBase ==
  ASSUME ModuleBase, DeleteOwned
  PROVE  ModuleBase'
  <1>0. TypeOK /\ Typed /\ ModuleTyped /\ ModuleWorker /\ mpc = "delete"
    BY DEF ModuleBase, TypeOK, DeleteOwned
  <1>f. UNCHANGED <<refs, others, module, mup, mbudget>>
    BY DEF DeleteOwned
  <1>l. mlocal \in ModuleLocal /\ mlocal.doomed \in SUBSET Version /\ refs' \in [Version -> FileOrNil]
    BY <1>0, <1>f, MLocalFields DEF ModuleTyped, Typed
  <1>1. PICK v \in mlocal.doomed :
          IF obj[v].exists
          THEN /\ obj' = [obj EXCEPT ![v] = Deleted(@)]
               /\ Notify({w \in {v} : obj'[v] # obj[v]})
               /\ IF mlocal.doomed = {v} THEN MReturn(FALSE)
                  ELSE /\ mlocal' = [mlocal EXCEPT !.doomed = @ \ {v}]
                       /\ UNCHANGED <<mpc, mqueue>>
          ELSE MReturn(TRUE) /\ UNCHANGED <<obj, queue>>
    BY DEF DeleteOwned
  <1>v. v \in Version
    BY <1>l
  <1>2. (TypeOK /\ Reading /\ FromUpstream)'
    <2>1. CASE obj[v].exists
      <3> DEFINE n == Deleted(obj[v])
      <3>1. obj' = [obj EXCEPT ![v] = n]
        BY <1>1, <2>1
      <3>2. queue' \subseteq Version
        BY <1>0, <1>1, <1>v, <2>1 DEF Notify, Typed
      <3>3. n \in Object /\ (~n.exists => n = Absent) /\ n.checksum \in {Nil, obj[v].checksum}
        <4>1. obj[v] \in Object
          BY <1>0, <1>v DEF Typed
        <4>2. CASE obj[v].finalizer
          BY <2>1, <4>1, <4>2, DeletedFacts
        <4>3. CASE ~obj[v].finalizer
          BY <4>1, <4>3, DeletedFacts, AbsentObject
        <4>4. QED
          BY <4>2, <4>3
      <3> HIDE DEF n
      <3>4. QED
        BY <1>f, <1>l, <1>v, <3>1, <3>2, <3>3, ModuleObject
    <2>2. CASE ~obj[v].exists
      BY <1>1, <1>f, <1>l, <2>2, ModuleNoObject
    <2>3. QED
      BY <2>1, <2>2
  <1>3. CASE \E b \in BOOLEAN : MReturn(b)
    BY <1>0, <1>f, <1>2, <1>3, MReturnBase DEF ModuleBase, ModuleTyped
  <1>4. CASE mlocal' = [mlocal EXCEPT !.doomed = @ \ {v}] /\ UNCHANGED <<mpc, mqueue>>
    <2>1. mlocal' \in ModuleLocal /\ mlocal'.todo = mlocal.todo
      BY ONLY <1>4, <1>l DEF ModuleLocal
    <2>2. QED
      BY <1>0, <1>f, <1>2, <1>4, <2>1 DEF ModuleBase, ModuleTyped, ModuleWorker, Loop, After
  <1>5. QED
    BY <1>1, <1>3, <1>4

\* The failures of the Module controller and the operators.
LEMMA ModuleFaultBase ==
  ASSUME ModuleBase, ModuleCallFails \/ ModuleCrash \/ ModuleRestart
  PROVE  ModuleBase'
  <1>0. TypeOK /\ Typed /\ ModuleTyped /\ ModuleWorker
    BY DEF ModuleBase, TypeOK
  <1>1. (TypeOK /\ Reading /\ FromUpstream)'
    BY <1>0, ModuleNoObject DEF ModuleCallFails, ModuleCrash, ModuleRestart, vars, others, world, Typed
  <1>2. CASE ModuleCallFails
    <2>1. MReturn(TRUE) /\ UNCHANGED <<module, mup>> /\ mpc # "idle" /\ mbudget' \in [ModuleEvent -> Nat]
      BY <1>0, <1>2, MSpendType DEF ModuleCallFails, ModuleEvent
    <2>2. QED
      BY <1>0, <1>1, <2>1, MReturnBase DEF ModuleBase, ModuleTyped
  <1>3. CASE ModuleCrash
    <2>1. mbudget' \in [ModuleEvent -> Nat]
      BY <1>0, <1>3, MSpendType DEF ModuleCrash, ModuleEvent
    <2>2. QED
      BY <1>0, <1>1, <1>3, <2>1, NothingTyped DEF ModuleCrash, ModuleBase, ModuleTyped, ModuleWorker, Loop
  <1>4. CASE ModuleRestart
    <2>1. module.exists \in BOOLEAN
      BY <1>0, ModuleFields DEF ModuleTyped
    <2>2. QED
      BY <1>0, <1>1, <1>4, <2>1 DEF ModuleRestart, ModuleBase, ModuleTyped, ModuleWorker
  <1>5. QED
    BY <1>2, <1>3, <1>4

\* An edit of the Module queues it.
LEMMA EditFacts ==
  ASSUME ModuleTyped, WriteModule \/ ForceModule \/ RemoveModule
  PROVE  /\ module' \in ModuleRecord /\ mbudget' \in [ModuleEvent -> Nat] /\ mqueue' = mup
         /\ UNCHANGED <<obj, queue, others, mup, mpc, mlocal>>
         /\ refs' \in {refs, NoRefs}
  <1>1. CASE WriteModule
    <2>1. PICK list \in ModuleSpecs : module' = [module EXCEPT !.exists = TRUE, !.versions = list]
      BY <1>1 DEF WriteModule
    <2>2. list \in Seq(Version)
      OBVIOUS
    <2>3. module' \in ModuleRecord
      BY <2>1, <2>2, ModuleUpdate DEF ModuleTyped
    <2>4. QED
      BY <1>1, <2>3, MSpendType DEF WriteModule, vars, others, world, ModuleEvent
  <1>2. CASE ForceModule
    <2>1. module' \in ModuleRecord
      BY <1>2, ModuleUpdate DEF ModuleTyped, ForceModule
    <2>2. QED
      BY <1>2, <2>1, MSpendType DEF ForceModule, vars, others, world, ModuleEvent
  <1>3. CASE RemoveModule
    BY <1>3, NothingTyped, MSpendType DEF RemoveModule, ModuleEvent
  <1>4. QED
    BY <1>1, <1>2, <1>3

LEMMA EditBase ==
  ASSUME ModuleBase, WriteModule \/ ForceModule \/ RemoveModule
  PROVE  ModuleBase'
  <1>0. TypeOK /\ Typed /\ ModuleTyped /\ ModuleWorker
    BY DEF ModuleBase, TypeOK
  <1>1. /\ module' \in ModuleRecord /\ mbudget' \in [ModuleEvent -> Nat] /\ mqueue' = mup
        /\ UNCHANGED <<obj, queue, others, mup, mpc, mlocal>> /\ refs' \in [Version -> FileOrNil]
    BY <1>0, EditFacts, NothingTyped DEF Typed
  <1>2. (TypeOK /\ Reading /\ FromUpstream)'
    BY <1>1, ModuleNoObject
  <1>3. QED
    BY <1>0, <1>1, <1>2 DEF ModuleBase, ModuleTyped, ModuleWorker

LEMMA GarbageCollectBase ==
  ASSUME ModuleBase, NEW v \in Version, GarbageCollect(v)
  PROVE  ModuleBase'
  <1> DEFINE n == Deleted(obj[v])
  <1>0. TypeOK /\ Typed /\ ModuleTyped /\ ModuleWorker
    BY DEF ModuleBase, TypeOK
  <1>1. obj' = [obj EXCEPT ![v] = n] /\ UNCHANGED others /\ UNCHANGED mvars /\ obj[v].exists
    BY DEF GarbageCollect
  <1>2. queue' \subseteq Version /\ refs' \in [Version -> FileOrNil]
    BY <1>0 DEF GarbageCollect, Notify, Typed
  <1>3. n \in Object /\ (~n.exists => n = Absent) /\ n.checksum \in {Nil, obj[v].checksum}
    <2>1. obj[v] \in Object
      BY <1>0 DEF Typed
    <2>2. CASE obj[v].finalizer
      BY <1>1, <2>1, <2>2, DeletedFacts
    <2>3. CASE ~obj[v].finalizer
      BY <2>1, <2>3, DeletedFacts, AbsentObject
    <2>4. QED
      BY <2>2, <2>3
  <1> HIDE DEF n
  <1>4. (TypeOK /\ Reading /\ FromUpstream)'
    BY <1>1, <1>2, <1>3, ModuleObject
  <1>5. QED
    BY <1>0, <1>1, <1>4 DEF mvars, ModuleBase, ModuleTyped, ModuleWorker

\* The types of both controllers, and what they hold of each other's objects.
LEMMA BaseStep ==
  ASSUME ModuleBase, [Composed]_allVars
  PROVE  ModuleBase'
  <1>1. CASE UNCHANGED allVars
    BY <1>1 DEF allVars, vars, mvars, ModuleBase, TypeOK, Typed, Gone, ModuleTyped, Reading,
                FromUpstream, ModuleWorker
  <1>2. CASE VersionSide
    BY <1>2, VersionSideBase
  <1>3. CASE ModuleStep
    BY <1>3, GetVersionBase, WriteRefsBase, CreateOwnedBase, UpdateOwnedBase, LatestBase, TrimBase,
       ModuleResetBase, ModuleStatusBase, ListOwnedBase, DeleteOwnedBase DEF ModuleStep
  <1>4. CASE ModuleNext
    BY <1>3, <1>4, ModuleReconcileBase, ModuleFaultBase, EditBase, GarbageCollectBase DEF ModuleNext
  <1>5. QED
    BY <1>1, <1>2, <1>4 DEF Composed, VersionSide

LEMMA BaseInit ==
  ASSUME ModuleInit
  PROVE  ModuleBase
  <1>1. TypeOK
    BY InitType DEF ModuleInit, TypeOK, Gone, Init
  <1>2. ModuleTyped /\ ModuleWorker
    BY NothingTyped DEF ModuleInit, ModuleTyped, ModuleWorker, Loop
  <1>3. Reading /\ FromUpstream
    BY DEF ModuleInit, Init, Reading, FromUpstream, Idle, Absent, Fetched
  <1>4. QED
    BY <1>1, <1>2, <1>3 DEF ModuleBase

\* Every variable of both controllers keeps its type and the workers what they
\* hold, whatever the operator does.
THEOREM BaseInvariance == ModuleSpec => []ModuleBase
  <1>1. ModuleInit => ModuleBase
    BY BaseInit
  <1>2. ModuleBase /\ [Composed]_allVars => ModuleBase'
    BY BaseStep
  <1>3. QED
    BY <1>1, <1>2, PTL DEF ModuleSpec

-----------------------------------------------------------------------------
\* The history limit

\* A write that changes the Module, and every error, puts it into the queue.
LEMMA Overtaken ==
  ASSUME ModuleBase, mup,
         \/ ModuleCallFails \/ ModuleRestart \/ WriteRefs \/ CreateOwned
         \/ WriteModule \/ ForceModule \/ RemoveModule
  PROVE  mqueue' \/ ~module'.exists
  <1>0. ModuleTyped /\ ModuleWorker
    BY DEF ModuleBase
  <1>1. CASE ModuleCallFails \/ ModuleRestart
    BY <1>1 DEF ModuleCallFails, MReturn, ModuleRestart
  <1>2. CASE WriteRefs
    <2>1. CASE module.exists
      BY <1>2, <2>1, WriteRefsFacts
    <2>2. CASE ~module.exists
      BY <1>2, <2>2 DEF WriteRefs, MReturn
    <2>3. QED
      BY <2>1, <2>2
  <1>3. CASE CreateOwned
    BY <1>0, <1>3 DEF CreateOwned, ModuleWorker
  <1>4. CASE WriteModule \/ ForceModule \/ RemoveModule
    BY <1>0, <1>4, EditFacts
  <1>5. QED
    BY <1>1, <1>2, <1>3, <1>4

\* What the steps of the loop and after it leave of the module variable.
LEMMA KeepsModule ==
  ASSUME ModuleBase, GetVersion \/ UpdateOwned \/ Latest \/ ModuleResetForceSync \/ ListOwned \/ DeleteOwned
  PROVE  mlocal'.module = mlocal.module \/ mpc' = "idle"
  <1>0. mlocal \in ModuleLocal
    BY DEF ModuleBase, ModuleTyped
  <1>1. CASE GetVersion \/ ModuleResetForceSync
    BY <1>0, <1>1 DEF GetVersion, ModuleResetForceSync, MReturn, ModuleLocal
  <1>2. CASE UpdateOwned
    BY <1>0, <1>2 DEF UpdateOwned, MReturn, ModuleLocal
  <1>3. CASE Latest
    BY <1>0, <1>3 DEF Latest, MReturn, ModuleLocal
  <1>4. CASE ListOwned
    BY <1>0, <1>4 DEF ListOwned, MReturn, ModuleLocal
  <1>5. CASE DeleteOwned
    BY <1>0, <1>5 DEF DeleteOwned, MReturn, ModuleLocal
  <1>6. QED
    BY <1>1, <1>2, <1>3, <1>4, <1>5

\* A trimming always changes the list.
LEMMA TrimChanges ==
  ASSUME ModuleBase, HistoryInv, Trim
  PROVE  mqueue'
  <1> DEFINE s == mlocal.module.versions
             t == VersionsToKeep(s)
             m == [module EXCEPT !.versions = t]
  <1>0. ModuleTyped /\ ModuleWorker /\ mpc = "trim" /\ mup
    BY DEF ModuleBase, Trim, ModuleWorker, ModuleTyped
  <1>1. CASE ~module.exists
    BY <1>1 DEF Trim, MReturn
  <1>2. CASE module.exists /\ mqueue
    BY <1>2 DEF Trim
  <1>3. CASE module.exists /\ ~mqueue
    <2>1. s = module.versions /\ s \in Seq(Version) /\ HistoryLimit < Len(s)
      BY <1>0, <1>3, ModuleFields DEF HistoryInv, ModuleWorker, ModuleTyped
    <2>2. t # s /\ t \in Seq(Version)
      BY <2>1, KeptListed
    <2> HIDE DEF t
    <2>3. m.versions = t
      BY <1>0 DEF ModuleTyped, ModuleRecord
    <2>4. m # module
      BY <2>1, <2>2, <2>3
    <2>5. mqueue' = (mqueue \/ Changed(m, refs))
      BY <1>3 DEF Trim, t
    <2> HIDE DEF m
    <2>6. QED
      BY <1>0, <2>4, <2>5 DEF Changed
  <1>4. QED
    BY <1>1, <1>2, <1>3

LEMMA HistoryStep ==
  ASSUME ModuleBase, HistoryInv, [Composed]_allVars
  PROVE  HistoryInv'
  <1> SUFFICES ASSUME mup', ~mqueue', module'.exists
               PROVE  /\ mpc' # "idle" => mlocal'.module.versions = module'.versions
                      /\ mpc' \in {"reset", "status"} =>
                            WithinHistory(module'.versions) /\ mlocal'.latest \in Listed(module')
                      /\ mpc' \in {"idle", "list", "delete"} =>
                            WithinHistory(module'.versions) /\ module'.latest \in Listed(module')
    BY DEF HistoryInv
  <1>0. ModuleTyped /\ ModuleWorker /\ mlocal \in ModuleLocal
    BY DEF ModuleBase, ModuleTyped
  <1> USE DEF HistoryInv
  <1>1. CASE UNCHANGED mvars
    BY <1>1 DEF mvars
  <1>2. CASE ModuleReconcile
    <2>1. CASE module.exists
      <3>1. /\ mpc' = Round(module.versions) /\ module' = module
            /\ mlocal' = [MIdle EXCEPT !.module = module, !.todo = module.versions]
        BY <1>2, <2>1 DEF ModuleReconcile
      <3>2. mlocal'.module = module
        BY <3>1 DEF MIdle
      <3>3. QED
        BY <3>1, <3>2 DEF Round
    <2>2. CASE ~module.exists
      BY <1>2, <2>2 DEF ModuleReconcile
    <2>3. QED
      BY <2>1, <2>2
  <1>3. CASE GetVersion
    <2>1. /\ UNCHANGED <<mup, mqueue, module>> /\ mpc = "get" /\ mpc' \in {"update", "refs"}
      BY <1>3 DEF GetVersion
    <2>2. QED
      BY <1>3, <2>1, KeepsModule
  <1>4. CASE UpdateOwned
    <2>1. /\ UNCHANGED <<mup, mqueue, module>> /\ mpc = "update" /\ mpc' \in {"latest", "get"}
      BY <1>4 DEF UpdateOwned, MReturn, Round
    <2>2. QED
      BY <1>4, <2>1, KeepsModule
  <1>5. CASE Latest
    <2> DEFINE s == mlocal.module.versions
    <2>0. mpc = "latest" /\ UNCHANGED <<mup, module>>
      BY <1>5 DEF Latest
    <2>1. ~(s = <<>> \/ HistoryLimit > Len(s))
      BY <1>5 DEF Latest, MReturn
    <2>2. /\ mlocal' = [mlocal EXCEPT !.latest = GetLatestVersion(s)] /\ mqueue' = mqueue
          /\ mpc' \in {"trim", "reset", "status"}
          /\ mpc' # "trim" => ~(HistoryLimit > 0 /\ HistoryLimit < Len(s))
      BY <1>5, <2>1 DEF Latest, AfterTrim
    <2>3. s = module.versions /\ s \in Seq(Version)
      BY <1>0, <2>0, <2>2, ModuleFields DEF ModuleTyped
    <2>4. mlocal'.latest = GetLatestVersion(s) /\ mlocal'.module = mlocal.module
      <3> HIDE DEF s
      <3> QED
        BY ONLY <1>0, <2>2 DEF ModuleLocal
    <2>5. GetLatestVersion(s) \in Listed(module)
      BY <2>1, <2>3, LatestListed DEF Listed
    <2>6. mpc' # "trim" => WithinHistory(s)
      BY <2>1, <2>2, <2>3 DEF WithinHistory
    <2>7. QED
      BY <2>0, <2>2, <2>3, <2>4, <2>5, <2>6
  <1>6. CASE Trim
    BY <1>6, TrimChanges
  <1>7. CASE ModuleResetForceSync
    <2>1. /\ mpc = "reset" /\ mup' = mup /\ mup /\ ~mqueue /\ module.exists
          /\ module' = module /\ mlocal' = mlocal /\ mpc' = "status"
      BY <1>7, <1>0 DEF ModuleResetForceSync, MReturn, Changed, ModuleWorker
    <2>2. QED
      BY <2>1
  <1>8. CASE ModuleStatus
    <2> DEFINE m == [module EXCEPT !.synced = TRUE, !.latest = mlocal.latest]
    <2>1. /\ mpc = "status" /\ mup' = mup /\ mup /\ ~mqueue /\ module.exists
          /\ module' = module /\ m = module /\ mpc' = "list"
          /\ mlocal' = [mlocal EXCEPT !.module = m]
      BY <1>8, <1>0 DEF ModuleStatus, MReturn, Changed, ModuleWorker
    <2>2. module.latest = mlocal.latest
      <3>1. m.latest = mlocal.latest
        BY <1>0 DEF ModuleTyped, ModuleRecord
      <3>2. QED
        BY <2>1, <3>1
    <2>3. mlocal'.module = module
      <3> HIDE DEF m
      <3> QED
        BY ONLY <1>0, <2>1 DEF ModuleLocal
    <2>4. QED
      BY <2>1, <2>2, <2>3
  <1>9. CASE ListOwned \/ DeleteOwned
    <2>1. /\ mpc \in {"list", "delete"} /\ mpc' \in {"idle", "delete"}
          /\ UNCHANGED <<mup, module>> /\ ~mqueue
      <3>1. CASE ListOwned
        BY <3>1 DEF ListOwned, MReturn
      <3>2. CASE DeleteOwned
        BY <3>2 DEF DeleteOwned, MReturn
      <3>3. QED
        BY <1>9, <3>1, <3>2
    <2>2. QED
      BY <1>9, <2>1, KeepsModule
  <1>10. CASE ModuleCrash
    BY <1>10 DEF ModuleCrash
  <1>11. CASE \/ ModuleCallFails \/ ModuleRestart \/ WriteRefs \/ CreateOwned
              \/ WriteModule \/ ForceModule \/ RemoveModule
    <2>1. CASE mup
      BY <1>11, <2>1, Overtaken
    <2>2. CASE ~mup
      <3>1. ModuleRestart
        <4>1. mpc = "idle"
          BY <1>0, <2>2 DEF ModuleWorker, ModuleTyped
        <4>2. ~(WriteModule \/ ForceModule \/ RemoveModule)
          BY <2>2 DEF WriteModule, ForceModule, RemoveModule
        <4>3. QED
          BY <1>11, <4>1, <4>2 DEF ModuleCallFails, WriteRefs, CreateOwned
      <3>2. QED
        BY <3>1 DEF ModuleRestart
    <2>3. QED
      BY <2>1, <2>2
  <1>12. QED
    <2>1. UNCHANGED mvars \/ ModuleNext
      BY DEF Composed, allVars
    <2>2. ASSUME NEW v \in Version, GarbageCollect(v) PROVE UNCHANGED mvars
      BY <2>2 DEF GarbageCollect
    <2>3. QED
      BY <1>1, <1>2, <1>3, <1>4, <1>5, <1>6, <1>7, <1>8, <1>9, <1>10, <1>11, <2>1, <2>2
      DEF ModuleNext, ModuleStep

\* HistoryBounded: once both controllers rest, the list of the Module is no
\* longer than its history limit and the latest version it reports is in the
\* list, whatever the operator wrote and whatever failed on the way.
THEOREM HistoryIsBounded == ModuleSpec => []HistoryBounded
  <1>1. ModuleInit => HistoryInv
    BY DEF ModuleInit, HistoryInv, NoModule
  <1>2. ModuleBase /\ HistoryInv /\ [Composed]_allVars => HistoryInv'
    BY HistoryStep
  <1>3. ModuleBase /\ HistoryInv => HistoryBounded
    BY DEF HistoryInv, HistoryBounded, Settled, WithinHistory
  <1>4. QED
    BY <1>1, <1>2, <1>3, BaseInvariance, PTL DEF ModuleSpec

-----------------------------------------------------------------------------
\* The deletions

\* What a step of the Version controller does to the stage of its object.
LEMMA ControllerStage ==
  ASSUME TypeOK, NEW v \in Version, Controller(v)
  PROVE  \/ Stage(obj'[v], obj[v])
         \/ AddFinalizer(v) /\ obj'[v] = [obj[v] EXCEPT !.finalizer = TRUE]
         \/ RemoveFinalizer(v) /\ obj'[v] = Absent
  <1>0. obj \in [Version -> Object] /\ obj[v] \in Object /\ local[v] \in Worker
    BY DEF TypeOK, Typed
  <1>s. Stage(obj[v], obj[v])
    BY <1>0, StageKeeps
  <1>1. CASE Quiet(v)
    BY <1>1, QuietStage
  <1>2. CASE Reconcile(v) \/ TimerFires(v) \/ DeleteArtifact(v) \/ Prepare(v) \/ (Fetch(v) /\ ~Moved(v))
    <2>1. obj' = obj
      BY <1>2 DEF Reconcile, TimerFires, DeleteArtifact, Prepare, Fetch, api
    <2>2. QED
      BY <1>s, <2>1
  <1>3. CASE AddFinalizer(v) \/ RemoveFinalizer(v)
    BY <1>0, <1>3, <1>s DEF AddFinalizer, RemoveFinalizer
  <1>4. CASE UpdateSpec(v)
    <2>1. \/ obj'[v] = obj[v]
          \/ obj'[v] = [obj[v] EXCEPT !.fileName = local[v].fileName, !.config = local[v].config]
      BY <1>0, <1>4 DEF UpdateSpec
    <2>2. Stage([obj[v] EXCEPT !.fileName = local[v].fileName, !.config = local[v].config], obj[v])
      BY <1>0, StageKeeps
    <2>3. QED
      BY <1>s, <2>1, <2>2
  <1>5. CASE WriteStatus(v)
    <2>1. \/ obj'[v] = obj[v]
          \/ obj'[v] = [WithScans(obj[v], local[v]) EXCEPT
                           !.synced = TRUE, !.checksum = local[v].archive, !.message = "ok"]
      BY <1>0, <1>5 DEF WriteStatus
    <2>2. Stage([WithScans(obj[v], local[v]) EXCEPT
                   !.synced = TRUE, !.checksum = local[v].archive, !.message = "ok"], obj[v])
      BY <1>0, StageWithScans
    <2>3. QED
      BY <1>s, <2>1, <2>2
  <1>6. QED
    BY <1>1, <1>2, <1>3, <1>4, <1>5, ControllerCases

\* What a step does to the queue and to a worker that deletes.
LEMMA ControllerWorker ==
  ASSUME TypeOK, NEW v \in Version, Controller(v)
  PROVE  \/ /\ Reconcile(v) /\ obj' = obj /\ pc'[v] = Branch(obj[v])
            /\ Branch(obj[v]) # "idle" => local'[v].version = obj[v]
         \/ /\ v \in queue => v \in queue'
            /\ pc'[v] \in Deletion => pc[v] \in Deletion /\ local' = local
            /\ pc[v] \in Deletion => \/ pc'[v] \in Deletion \/ v \in queue' \/ ~obj'[v].exists
  <1>0. obj \in [Version -> Object] /\ obj[v] \in Object /\ local \in [Version -> Worker]
        /\ pc \in [Version -> Labels]
    BY DEF TypeOK, Typed
  <1>1. CASE Reconcile(v)
    BY <1>0, <1>1 DEF Reconcile, Goto, api, Worker
  <1>2. CASE Quiet(v)
    <2>1. Returns(v) \/ Proceeds(v)
      BY <1>2, QuietStep
    <2>2. pc'[v] \notin Deletion
      BY <2>1 DEF Returns, Proceeds, Deletion
    <2>3. v \in queue => v \in queue'
      <3>1. CASE WriteTerminal(v) \/ FastPath(v) \/ VerifyStored(v) \/ FirstPut(v) \/ Put(v)
        BY <3>1 DEF WriteTerminal, FastPath, VerifyStored, FirstPut, Put, Return
      <3>2. CASE Fetch(v) /\ Moved(v)
        BY <3>2 DEF Fetch, Return, Requeue
      <3>3. CASE ResolvePolicy(v) \/ BinaryScan(v) \/ SourceDedup(v) \/ SourceScan(v)
                   \/ AcquireDownload(v) \/ AcquireScan(v)
        BY <3>3 DEF ResolvePolicy, BinaryScan, SourceDedup, SourceScan, AcquireDownload, AcquireScan
      <3>4. CASE PersistScanViolation(v) \/ ResetForceSync(v) \/ ApplyStored(v)
        BY <3>4 DEF PersistScanViolation, ResetForceSync, ApplyStored, Return, Requeue, Finish
      <3>5. CASE Failure(v)
        BY <3>5 DEF Failure, FastPathFails, FetchFails, CallFails, Requeue, Return
      <3>6. QED
        BY <1>2, <3>1, <3>2, <3>3, <3>4, <3>5 DEF Quiet
    <2>4. pc[v] \in Deletion => v \in queue'
      <3> SUFFICES ASSUME pc[v] \in Deletion PROVE v \in queue'
        OBVIOUS
      <3>1. Failure(v)
        BY <1>2 DEF Deletion, Quiet, WriteTerminal, FastPath, Fetch, VerifyStored, FirstPut, Put,
           ResolvePolicy, BinaryScan, SourceDedup, SourceScan, PersistScanViolation,
           ResetForceSync, ApplyStored, AcquireDownload, AcquireScan
      <3>2. CallFails(v)
        BY <3>1 DEF Failure, FastPathFails, FetchFails, Deletion
      <3>3. QED
        BY <3>2 DEF CallFails, Requeue, Return
    <2>5. QED
      BY <2>2, <2>3, <2>4
  <1>3. CASE TimerFires(v)
    BY <1>3 DEF TimerFires
  <1>4. CASE AddFinalizer(v)
    BY <1>0, <1>4 DEF AddFinalizer, Requeue, Return, Deletion
  <1>5. CASE DeleteArtifact(v)
    BY <1>0, <1>5 DEF DeleteArtifact, Goto, Deletion
  <1>6. CASE RemoveFinalizer(v)
    <2>1. ~Absent.exists
      BY DEF Absent
    <2>2. QED
      BY <1>0, <1>6, <2>1 DEF RemoveFinalizer, Return, Deletion
  <1>7. CASE Prepare(v) \/ (Fetch(v) /\ ~Moved(v))
    BY <1>0, <1>7 DEF Prepare, Fetch, Goto, Deletion
  <1>8. CASE UpdateSpec(v) \/ WriteStatus(v)
    <2>1. pc[v] \notin Deletion
      BY <1>8 DEF UpdateSpec, WriteStatus, Deletion
    <2>2. pc'[v] \notin Deletion
      BY <1>0, <1>8 DEF UpdateSpec, WriteStatus, Deletion, Requeue, Finish, Return, Goto
    <2>3. v \in queue => v \in queue'
      BY <1>8 DEF UpdateSpec, WriteStatus, Requeue, Finish, Return
    <2>4. QED
      BY <2>1, <2>2, <2>3
  <1>9. QED
    BY <1>1, <1>2, <1>3, <1>4, <1>5, <1>6, <1>7, <1>8, ControllerCases

\* What DeletionsPending says of one Version.
KeyPending(v) ==
    /\ obj[v].deleting => /\ obj[v].exists /\ obj[v].finalizer
                          /\ up /\ v \notin queue => pc[v] \in Deletion
    /\ pc[v] \in Deletion => local[v].version.deleting

\* A step on an object that terminates finishes the deletion or leaves it to
\* somebody.
LEMMA ControllerPending ==
  ASSUME TypeOK, NEW v \in Version, KeyPending(v), Controller(v)
  PROVE  KeyPending(v)'
  <1>0. obj[v] \in Object /\ up' = up
    BY ControllerFrame DEF TypeOK, Typed
  <1>a. ~Absent.deleting
    BY DEF Absent
  <1>s. obj'[v].deleting => /\ obj[v].deleting /\ obj'[v].exists /\ obj'[v].finalizer
    <2>1. CASE Stage(obj'[v], obj[v])
      BY <2>1 DEF Stage, KeyPending
    <2>2. CASE obj'[v] = [obj[v] EXCEPT !.finalizer = TRUE]
      BY <1>0, <2>2, StageWrites DEF KeyPending
    <2>3. QED
      BY <1>a, <2>1, <2>2, ControllerStage
  <1>1. CASE /\ Reconcile(v) /\ obj' = obj /\ pc'[v] = Branch(obj[v])
             /\ Branch(obj[v]) # "idle" => local'[v].version = obj[v]
    <2>1. Branch(obj[v]) \in Deletion => obj[v].deleting
      BY <1>0, BranchDeleting DEF Deletion
    <2>2. obj[v].deleting => Branch(obj[v]) \in Deletion
      BY <1>0, ObjectFields DEF Branch, Deletion, KeyPending
    <2>3. "idle" \notin Deletion
      BY DEF Deletion
    <2>4. QED
      BY <1>1, <1>s, <2>1, <2>2, <2>3 DEF KeyPending
  <1>2. CASE /\ v \in queue => v \in queue'
             /\ pc'[v] \in Deletion => pc[v] \in Deletion /\ local' = local
             /\ pc[v] \in Deletion => \/ pc'[v] \in Deletion \/ v \in queue' \/ ~obj'[v].exists
    BY <1>0, <1>2, <1>s DEF KeyPending
  <1>3. QED
    BY <1>1, <1>2, ControllerWorker

LEMMA VersionSidePending ==
  ASSUME TypeOK, DeletionsPending, VersionSide
  PROVE  DeletionsPending'
  <1> SUFFICES ASSUME NEW w \in Version PROVE KeyPending(w)'
    BY DEF DeletionsPending, KeyPending
  <1>k. KeyPending(w)
    BY DEF DeletionsPending, KeyPending
  <1>1. ASSUME NEW v \in Version, Controller(v) PROVE KeyPending(w)'
    <2>1. CASE v = w
      BY <1>1, <1>k, <2>1, ControllerPending
    <2>2. CASE v # w
      BY <1>1, <1>k, <2>2, Elsewhere, ControllerFrame DEF Untouched, KeyPending
    <2>3. QED
      BY <2>1, <2>2
  <1>2. CASE Crash
    BY <1>2, <1>k DEF Crash, KeyPending, Deletion, api
  <1>3. CASE Restart
    BY <1>3, <1>k DEF Restart, KeyPending, PassesCreate, api
  <1>4. QED
    BY <1>1, <1>2, <1>3 DEF VersionSide

\* The Module controller deletes with an event, and leaves the queue and the
\* workers of the Version controller alone.
LEMMA PendingKept ==
  ASSUME DeletionsPending, obj \in [Version -> Object],
         NEW v \in Version, NEW o, obj' = [obj EXCEPT ![v] = o],
         queue \subseteq queue', UNCHANGED <<pc, local, up>>,
         o.deleting => o.exists /\ o.finalizer /\ (o = obj[v] \/ (up => v \in queue'))
  PROVE  DeletionsPending'
  <1> SUFFICES ASSUME NEW w \in Version PROVE KeyPending(w)'
    BY DEF DeletionsPending, KeyPending
  <1>k. KeyPending(w)
    BY DEF DeletionsPending, KeyPending
  <1>1. obj'[w] = IF w = v THEN o ELSE obj[w]
    OBVIOUS
  <1>2. QED
    BY <1>k, <1>1 DEF KeyPending

-----------------------------------------------------------------------------
\* What the Module controller does to the Versions

\* The steps that leave the Versions and their controller alone.
Aside == \/ ModuleReconcile \/ GetVersion \/ WriteRefs \/ Latest \/ Trim
         \/ ModuleResetForceSync \/ ModuleStatus \/ ListOwned
         \/ ModuleCallFails \/ ModuleCrash \/ ModuleRestart
         \/ WriteModule \/ ForceModule \/ RemoveModule

LEMMA AsideFrame ==
  ASSUME Aside
  PROVE  UNCHANGED <<obj, queue, others>>
  <1>1. CASE ModuleReconcile \/ GetVersion \/ Latest \/ Trim \/ ModuleResetForceSync \/ ListOwned
    BY <1>1 DEF ModuleReconcile, GetVersion, Latest, Trim, ModuleResetForceSync, ListOwned,
                vars, others, world
  <1>2. CASE WriteRefs \/ ModuleStatus \/ RemoveModule
    BY <1>2 DEF WriteRefs, ModuleStatus, RemoveModule
  <1>3. CASE ModuleCallFails \/ ModuleCrash \/ ModuleRestart \/ WriteModule \/ ForceModule
    BY <1>3 DEF ModuleCallFails, ModuleCrash, ModuleRestart, WriteModule, ForceModule,
                vars, others, world
  <1>4. QED
    BY <1>1, <1>2, <1>3 DEF Aside

\* A Version is created with the name in the map, unless it exists.
LEMMA Creation ==
  ASSUME ModuleBase, CreateOwned
  PROVE  LET v == Head(mlocal.todo)
             n == NewVersion(mlocal.refs[v], "given")
         IN  /\ v \in Version /\ UNCHANGED <<refs, others, module, mup, mqueue>>
             /\ \/ obj' = obj /\ queue' = queue
                \/ /\ ~obj[v].exists /\ obj' = [obj EXCEPT ![v] = n]
                   /\ queue' = IF up THEN queue \cup {v} ELSE queue
  <1>1. mpc \in Loop /\ ModuleTyped /\ ModuleWorker
    BY DEF ModuleBase, CreateOwned, Loop
  <1>2. CASE obj[Head(mlocal.todo)].exists
    BY <1>1, <1>2, LoopHead DEF CreateOwned, Notify
  <1>3. CASE ~obj[Head(mlocal.todo)].exists
    BY <1>1, <1>3, LoopHead DEF CreateOwned, Notify
  <1>4. QED
    BY <1>2, <1>3

\* A Version that is as it was read is replaced.
LEMMA Replacement ==
  ASSUME ModuleBase, UpdateOwned
  PROVE  LET v == Head(mlocal.todo)
             o == mlocal.version
         IN  /\ v \in Version /\ o \in Object /\ o.exists
             /\ UNCHANGED <<refs, others, module, mup, mbudget>>
             /\ \/ MReturn(TRUE) /\ UNCHANGED <<obj, queue>>
                \/ /\ obj[v] = o /\ obj' = [obj EXCEPT ![v] = Rewritten(o)]
                   /\ queue' = IF up /\ (SpecChanged(o, Rewritten(o)) \/ ~Rewritten(o).exists)
                               THEN queue \cup {v} ELSE queue
                   /\ mlocal' = [mlocal EXCEPT !.refs[v] = o.fileName, !.todo = Tail(mlocal.todo)]
                   /\ mpc' = Round(Tail(mlocal.todo)) /\ mqueue' = mqueue
  <1> DEFINE v == Head(mlocal.todo)
             o == mlocal.version
  <1>1. mpc \in Loop /\ ModuleTyped /\ ModuleWorker /\ mpc = "update"
    BY DEF ModuleBase, UpdateOwned, Loop
  <1>2. v \in Version /\ o \in Object /\ o.exists
    BY <1>1, LoopHead, MLocalFields DEF ModuleTyped, ModuleWorker
  <1>3. CASE obj[v] = o
    BY <1>2, <1>3 DEF UpdateOwned, Notify
  <1>4. CASE obj[v] # o
    BY <1>2, <1>4 DEF UpdateOwned
  <1>5. QED
    BY <1>3, <1>4

\* A Delete of a Version that exists, with the event it causes.
DeleteCall(v) == /\ obj[v].exists
                 /\ obj' = [obj EXCEPT ![v] = Deleted(obj[v])]
                 /\ queue' = IF up /\ Deleted(obj[v]) # obj[v] THEN queue \cup {v} ELSE queue
                 /\ UNCHANGED <<refs, others>>

LEMMA Removal ==
  ASSUME ModuleBase, DeleteOwned
  PROVE  /\ mpc = "delete" /\ UNCHANGED <<refs, others, module, mup, mbudget>>
         /\ \/ MReturn(TRUE) /\ UNCHANGED <<obj, queue>>
            \/ \E v \in mlocal.doomed :
                  /\ v \in Version /\ DeleteCall(v)
                  /\ \/ mlocal.doomed = {v} /\ MReturn(FALSE)
                     \/ /\ mlocal' = [mlocal EXCEPT !.doomed = mlocal.doomed \ {v}]
                        /\ UNCHANGED <<mpc, mqueue>>
  <1>0. obj \in [Version -> Object] /\ mlocal.doomed \in SUBSET Version
    BY MLocalFields DEF ModuleBase, TypeOK, Typed, ModuleTyped
  <1>1. mpc = "delete" /\ UNCHANGED <<refs, others, module, mup, mbudget>>
    BY DEF DeleteOwned
  <1>2. PICK v \in mlocal.doomed :
          IF obj[v].exists
          THEN /\ obj' = [obj EXCEPT ![v] = Deleted(@)]
               /\ Notify({w \in {v} : obj'[v] # obj[v]})
               /\ IF mlocal.doomed = {v} THEN MReturn(FALSE)
                  ELSE /\ mlocal' = [mlocal EXCEPT !.doomed = @ \ {v}]
                       /\ UNCHANGED <<mpc, mqueue>>
          ELSE MReturn(TRUE) /\ UNCHANGED <<obj, queue>>
    BY DEF DeleteOwned
  <1>3. CASE obj[v].exists
    <2>1. obj' = [obj EXCEPT ![v] = Deleted(obj[v])] /\ v \in Version
      BY <1>0, <1>2, <1>3
    <2>2. obj'[v] = Deleted(obj[v])
      BY <1>0, <2>1
    <2>3. queue' = IF up /\ Deleted(obj[v]) # obj[v] THEN queue \cup {v} ELSE queue
      <3>1. Notify({w \in {v} : Deleted(obj[v]) # obj[v]})
        BY <1>2, <1>3, <2>2
      <3>2. CASE Deleted(obj[v]) # obj[v]
        BY <3>1, <3>2 DEF Notify
      <3>3. CASE Deleted(obj[v]) = obj[v]
        BY <3>1, <3>3 DEF Notify
      <3>4. QED
        BY <3>2, <3>3
    <2>4. QED
      BY <1>1, <1>2, <1>3, <2>1, <2>3 DEF DeleteCall
  <1>4. CASE ~obj[v].exists
    BY <1>1, <1>2, <1>4
  <1>5. QED
    BY <1>3, <1>4

LEMMA Collection ==
  ASSUME ModuleBase, NEW v \in Version, GarbageCollect(v)
  PROVE  DeleteCall(v) /\ ~module.exists /\ UNCHANGED mvars
  <1>0. obj[v] \in Object
    BY DEF ModuleBase, TypeOK, Typed
  <1>1. Deleted(obj[v]) # obj[v]
    BY <1>0, DeletedFacts, AbsentObject DEF GarbageCollect
  <1>2. QED
    BY <1>1 DEF GarbageCollect, DeleteCall, Notify

\* No step of the Module controller loses a deletion.
LEMMA ModulePending ==
  ASSUME ModuleBase, DeletionsPending, ModuleNext
  PROVE  DeletionsPending'
  <1>0. obj \in [Version -> Object] /\ ModuleTyped /\ ModuleWorker
    BY DEF ModuleBase, TypeOK, Typed
  <1>1. CASE Aside
    <2>1. UNCHANGED <<obj, queue, pc, local, up>>
      BY <1>1, AsideFrame DEF others
    <2>2. QED
      BY <2>1 DEF DeletionsPending
  <1>2. CASE CreateOwned
    <2> DEFINE v == Head(mlocal.todo)
               n == NewVersion(mlocal.refs[v], "given")
    <2>1. v \in Version /\ UNCHANGED <<pc, local, up>>
      BY <1>2, Creation DEF others
    <2>2. CASE obj' = obj /\ queue' = queue
      BY <2>1, <2>2 DEF DeletionsPending
    <2>3. CASE obj' = [obj EXCEPT ![v] = n] /\ queue' = IF up THEN queue \cup {v} ELSE queue
      <3>1. ~n.deleting
        BY DEF NewVersion, Absent
      <3> HIDE DEF n, v
      <3>2. QED
        BY <1>0, <2>1, <2>3, <3>1, PendingKept
    <2>4. QED
      BY <1>2, <2>2, <2>3, Creation
  <1>3. CASE UpdateOwned
    <2> DEFINE v == Head(mlocal.todo)
               o == mlocal.version
               n == Rewritten(o)
    <2>1. v \in Version /\ o \in Object /\ UNCHANGED <<pc, local, up>>
      BY <1>3, Replacement DEF others
    <2>2. CASE obj' = obj /\ queue' = queue
      BY <2>1, <2>2 DEF DeletionsPending
    <2>3. CASE obj' = [obj EXCEPT ![v] = n] /\ queue \subseteq queue'
      <3>1. ~n.deleting
        BY <2>1, RewrittenFacts, AbsentObject
      <3> HIDE DEF n, v
      <3>2. QED
        BY <1>0, <2>1, <2>3, <3>1, PendingKept
    <2>4. QED
      BY <1>3, <2>2, <2>3, Replacement
  <1>4. ASSUME NEW v \in Version, DeleteCall(v) PROVE DeletionsPending'
    <2> DEFINE n == Deleted(obj[v])
    <2>1. obj' = [obj EXCEPT ![v] = n] /\ queue \subseteq queue' /\ UNCHANGED <<pc, local, up>>
      BY <1>4 DEF DeleteCall, others
    <2>2. n.deleting => n.exists /\ n.finalizer
      BY <1>0, <1>4, DeletedFacts, AbsentObject DEF DeleteCall
    <2>3. n = obj[v] \/ (up => v \in queue')
      BY <1>4 DEF DeleteCall
    <2> HIDE DEF n
    <2>4. QED
      BY <1>0, <2>1, <2>2, <2>3, PendingKept
  <1>5. CASE DeleteOwned
    <2>1. CASE UNCHANGED <<obj, queue>>
      <3>1. UNCHANGED <<pc, local, up>>
        BY <1>5, Removal DEF others
      <3>2. QED
        BY <2>1, <3>1 DEF DeletionsPending
    <2>2. QED
      BY <1>4, <1>5, <2>1, Removal
  <1>6. ASSUME NEW v \in Version, GarbageCollect(v) PROVE DeletionsPending'
    BY <1>4, <1>6, Collection
  <1>7. QED
    BY <1>1, <1>2, <1>3, <1>5, <1>6 DEF ModuleNext, ModuleStep, Aside

-----------------------------------------------------------------------------
\* The list of the Module

\* The versions left after the first one.
LEMMA TailLeft ==
  ASSUME NEW s \in Seq(Version), s # <<>>
  PROVE  LET t == Tail(s) IN
         /\ {t[i] : i \in DOMAIN t} \subseteq {s[i] : i \in DOMAIN s}
         /\ {s[i] : i \in DOMAIN s} \subseteq {t[i] : i \in DOMAIN t} \cup {Head(s)}
         /\ Head(s) \in {s[i] : i \in DOMAIN s}
  <1> DEFINE t == Tail(s)
  <1>1. Len(s) \in Nat /\ Len(s) > 0 /\ DOMAIN s = 1..Len(s) /\ Head(s) = s[1]
    OBVIOUS
  <1>2. DOMAIN t = 1..(Len(s) - 1) /\ \A i \in 1..(Len(s) - 1) : t[i] = s[i+1]
    OBVIOUS
  <1>3. \A i \in DOMAIN t : i + 1 \in DOMAIN s /\ t[i] = s[i+1]
    BY <1>1, <1>2
  <1>4. \A i \in DOMAIN s : i # 1 => i - 1 \in DOMAIN t /\ t[i-1] = s[i]
    BY <1>1, <1>2
  <1>5. 1 \in DOMAIN s
    BY <1>1
  <1> HIDE DEF t
  <1>6. /\ {t[i] : i \in DOMAIN t} \subseteq {s[i] : i \in DOMAIN s}
        /\ {s[i] : i \in DOMAIN s} \subseteq {t[i] : i \in DOMAIN t} \cup {Head(s)}
        /\ Head(s) \in {s[i] : i \in DOMAIN s}
    BY <1>1, <1>3, <1>4, <1>5
  <1>7. QED
    BY <1>6 DEF t

\* What ListFollowed says of a state with a Module.
Follows ==
    /\ mpc # "idle" => mlocal.module.versions = module.versions /\ Todo \subseteq Listed(module)
    /\ \A v \in Listed(module) : /\ ~obj[v].deleting
                                 /\ pc[v] \notin Deletion
                                 /\ v \notin mlocal.doomed
    /\ mup /\ ~mqueue =>
          /\ \A v \in Listed(module) \ Todo : obj[v].exists
          /\ mpc \in {"idle", "delete"} =>
                \A v \in Version : obj[v].exists /\ ~obj[v].deleting
                                     => v \in Listed(module) \cup mlocal.doomed

LEMMA FollowsList == ListFollowed <=> (module.exists => Follows)
  BY DEF ListFollowed, Follows

\* A version of the list is a Version.
LEMMA ListedVersions ==
  ASSUME NEW m \in ModuleRecord
  PROVE  Listed(m) \subseteq Version
  <1>1. m.versions \in Seq(Version)
    BY ModuleFields
  <1>2. QED
    BY <1>1 DEF Listed

\* The reconcile goes on with the same list.
LEMMA ListGoesOn ==
  ASSUME Follows, module'.versions = module.versions, UNCHANGED <<obj, pc>>,
         mpc # "idle", mpc' \notin {"idle", "delete"},
         mlocal'.module.versions = module'.versions, mlocal'.todo = mlocal.todo,
         mlocal'.doomed = mlocal.doomed, mup' /\ ~mqueue' => mup /\ ~mqueue
  PROVE  Follows'
  <1>1. Listed(module') = Listed(module) /\ Todo' = Todo
    BY DEF Todo, Listed
  <1>2. QED
    BY <1>1 DEF Follows

\* The reconcile returns with an error, or the controller stops: the Module is
\* in the queue, or nobody is there.
LEMMA ListGivenUp ==
  ASSUME Follows, Listed(module') \subseteq Listed(module), UNCHANGED <<obj, pc>>,
         mpc' = "idle", mlocal' = MIdle, mqueue' \/ ~mup'
  PROVE  Follows'
  BY NothingTyped DEF Follows

LEMMA AsideFollows ==
  ASSUME ModuleBase, HistoryInv, Follows, module.exists, Aside, ~WriteModule, ~RemoveModule
  PROVE  Follows'
  <1>0. ModuleTyped /\ ModuleWorker /\ mlocal \in ModuleLocal /\ module \in ModuleRecord
    BY DEF ModuleBase, ModuleTyped
  <1>f. obj' = obj /\ pc' = pc
    BY AsideFrame DEF others
  <1>r. ASSUME MReturn(TRUE), module' = module PROVE Follows'
    BY <1>f, <1>r, ListGivenUp DEF MReturn
  <1>1. CASE ModuleReconcile
    <2>1. /\ mpc = "idle" /\ mpc' = Round(module.versions) /\ mqueue' = FALSE /\ mup' = mup
          /\ mlocal' = [MIdle EXCEPT !.module = module, !.todo = module.versions]
          /\ module' = module
      BY <1>1 DEF ModuleReconcile
    <2>2. mlocal'.module = module /\ mlocal'.todo = module.versions /\ mlocal'.doomed = {}
      BY <2>1 DEF MIdle
    <2>3. Todo' = Listed(module)
      BY <2>2 DEF Todo, Listed
    <2>4. QED
      BY <1>f, <2>1, <2>2, <2>3, RoundFacts DEF Follows, Round
  <1>2. CASE GetVersion
    <2>1. /\ UNCHANGED <<module, mup, mqueue>> /\ mpc = "get" /\ mpc' \in {"update", "refs"}
          /\ \/ mlocal' = mlocal
             \/ mlocal' = [mlocal EXCEPT !.version = obj[Head(mlocal.todo)]]
      BY <1>2 DEF GetVersion
    <2>2. mlocal'.module = mlocal.module /\ mlocal'.todo = mlocal.todo /\ mlocal'.doomed = mlocal.doomed
      BY ONLY <1>0, <2>1 DEF ModuleLocal
    <2>3. mlocal'.module.versions = module'.versions
      BY <2>1, <2>2 DEF Follows
    <2>4. QED
      BY <1>f, <2>1, <2>2, <2>3, ListGoesOn
  <1>3. CASE WriteRefs
    <2> DEFINE m == [module EXCEPT !.synced = TRUE]
    <2>1. PICK r : /\ module' = m /\ mlocal' = [mlocal EXCEPT !.refs = r, !.module = m]
                   /\ mqueue' = TRUE /\ mpc' = "create" /\ mpc = "refs"
      BY <1>3, WriteRefsFacts DEF WriteRefs
    <2>2. m.versions = module.versions
      BY <1>0 DEF ModuleRecord
    <2> HIDE DEF m
    <2>3. mlocal'.module = m /\ mlocal'.todo = mlocal.todo /\ mlocal'.doomed = mlocal.doomed
      BY ONLY <1>0, <2>1 DEF ModuleLocal
    <2>4. QED
      BY <1>f, <2>1, <2>2, <2>3, ListGoesOn
  <1>4. CASE Latest
    <2> DEFINE l == GetLatestVersion(mlocal.module.versions)
    <2>1. CASE MReturn(TRUE)
      BY <1>4, <1>r, <2>1 DEF Latest
    <2>2. CASE ~MReturn(TRUE)
      <3>1. /\ UNCHANGED <<module, mup, mqueue>> /\ mpc = "latest"
            /\ mpc' \in {"trim", "reset", "status"} /\ mlocal' = [mlocal EXCEPT !.latest = l]
        BY <1>4, <2>2 DEF Latest, AfterTrim
      <3> HIDE DEF l
      <3>2. mlocal'.module = mlocal.module /\ mlocal'.todo = mlocal.todo /\ mlocal'.doomed = mlocal.doomed
        BY ONLY <1>0, <3>1 DEF ModuleLocal
      <3>3. mlocal'.module.versions = module'.versions
        BY <3>1, <3>2 DEF Follows
      <3>4. QED
        BY <1>f, <3>1, <3>2, <3>3, ListGoesOn
    <2>3. QED
      BY <2>1, <2>2
  <1>5. CASE Trim
    <2> DEFINE s == mlocal.module.versions
               t == VersionsToKeep(s)
               m == [module EXCEPT !.versions = t]
    <2>1. /\ module' = m /\ mqueue' /\ mlocal' = [mlocal EXCEPT !.module = m]
          /\ mpc' \in {"reset", "status"} /\ mup' = mup /\ mpc = "trim"
      BY <1>5, TrimChanges DEF Trim, AfterTrim
    <2>2. s = module.versions /\ s \in Seq(Version) /\ HistoryLimit < Len(s)
      BY <1>0, <2>1, ModuleFields DEF Follows, ModuleWorker
    <2>3. t \in Seq(Version) /\ {t[i] : i \in DOMAIN t} \subseteq {s[i] : i \in DOMAIN s}
      BY <2>2, KeptListed
    <2> HIDE DEF t
    <2>4. m.versions = t
      BY <1>0 DEF ModuleRecord
    <2> HIDE DEF m
    <2>5. Listed(module') \subseteq Listed(module)
      <3>1. module'.versions = t
        BY ONLY <2>1, <2>4
      <3>2. {t[i] : i \in DOMAIN t} \subseteq {module.versions[i] : i \in DOMAIN module.versions}
        BY ONLY <2>2, <2>3
      <3>3. QED
        BY ONLY <3>1, <3>2 DEF Listed
    <2>6. mlocal'.module = m /\ mlocal'.todo = mlocal.todo /\ mlocal'.doomed = mlocal.doomed
      BY ONLY <1>0, <2>1 DEF ModuleLocal
    <2>7. Todo' = {}
      <3>1. mlocal'.todo = <<>>
        BY <1>0, <2>1, <2>6 DEF ModuleWorker, Loop
      <3>2. QED
        BY <3>1 DEF Todo
    <2>8. QED
      BY <1>f, <2>1, <2>5, <2>6, <2>7 DEF Follows
  <1>6. CASE ModuleResetForceSync
    <2>1. /\ module' = [module EXCEPT !.forceSync = FALSE] /\ mlocal' = mlocal
          /\ mpc = "reset" /\ mpc' = "status" /\ mup' = mup /\ (mqueue => mqueue')
      BY <1>6 DEF ModuleResetForceSync
    <2>2. module'.versions = module.versions
      BY <1>0, <2>1 DEF ModuleRecord
    <2>3. QED
      BY <1>f, <2>1, <2>2, ListGoesOn DEF Follows
  <1>7. CASE ModuleStatus
    <2> DEFINE m == [module EXCEPT !.synced = TRUE, !.latest = mlocal.latest]
    <2>1. /\ module' = m /\ mlocal' = [mlocal EXCEPT !.module = m]
          /\ mpc = "status" /\ mpc' = "list" /\ mup' = mup /\ (mqueue => mqueue')
      BY <1>7 DEF ModuleStatus
    <2>2. m.versions = module.versions
      BY <1>0 DEF ModuleRecord
    <2> HIDE DEF m
    <2>3. mlocal'.module = m /\ mlocal'.todo = mlocal.todo /\ mlocal'.doomed = mlocal.doomed
      BY ONLY <1>0, <2>1 DEF ModuleLocal
    <2>4. QED
      BY <1>f, <2>1, <2>2, <2>3, ListGoesOn
  <1>8. CASE ListOwned
    <2> DEFINE doomed == {v \in Version : obj[v].exists} \ Listed(mlocal.module)
    <2>0. mpc = "list" /\ UNCHANGED <<module, mup>>
      BY <1>8 DEF ListOwned
    <2>1. Listed(mlocal.module) = Listed(module) /\ Todo = {}
      <3>1. mlocal.todo = <<>>
        BY <1>0, <2>0 DEF ModuleWorker, Loop
      <3>2. QED
        BY <2>0, <3>1 DEF Follows, Listed, Todo
    <2>2. CASE doomed = {}
      <3>1. mpc' = "idle" /\ mlocal' = MIdle /\ (mqueue => mqueue')
        BY <1>8, <2>2 DEF ListOwned, MReturn
      <3>2. Todo' = {} /\ mlocal'.doomed = {}
        BY <3>1, NothingTyped DEF Todo
      <3>3. QED
        BY <1>f, <2>0, <2>1, <2>2, <3>1, <3>2 DEF Follows
    <2>3. CASE doomed # {}
      <3>1. /\ mlocal' = [mlocal EXCEPT !.doomed = doomed] /\ mpc' = "delete" /\ mqueue' = mqueue
        BY <1>8, <2>3 DEF ListOwned
      <3>2. mlocal'.module = mlocal.module /\ mlocal'.todo = mlocal.todo /\ mlocal'.doomed = doomed
        <4> HIDE DEF doomed
        <4> QED
          BY ONLY <1>0, <3>1 DEF ModuleLocal
      <3>3. Todo' = Todo
        BY <3>2 DEF Todo
      <3>4. QED
        BY <1>f, <2>0, <2>1, <3>1, <3>2, <3>3 DEF Follows
    <2>4. QED
      BY <2>2, <2>3
  <1>9. CASE ModuleCallFails
    BY <1>9, <1>r DEF ModuleCallFails
  <1>10. CASE ModuleCrash
    BY <1>f, <1>10, ListGivenUp DEF ModuleCrash
  <1>11. CASE ModuleRestart
    BY <1>f, <1>11 DEF ModuleRestart, Follows, Todo
  <1>12. CASE ForceModule
    <2>1. /\ module' = [module EXCEPT !.forceSync = TRUE] /\ mqueue' = mup
          /\ UNCHANGED <<mup, mpc, mlocal>>
      BY <1>12 DEF ForceModule
    <2>2. module'.versions = module.versions
      BY <1>0, <2>1 DEF ModuleRecord
    <2>3. Listed(module') = Listed(module) /\ Todo' = Todo
      BY <2>1, <2>2 DEF Todo, Listed
    <2>4. QED
      BY <1>f, <2>1, <2>2, <2>3 DEF Follows
  <1>13. QED
    BY <1>1, <1>2, <1>3, <1>4, <1>5, <1>6, <1>7, <1>8, <1>9, <1>10, <1>11, <1>12 DEF Aside

\* The writes of the Module controller follow the list.
LEMMA WritesFollow ==
  ASSUME ModuleBase, Follows, module.exists, CreateOwned \/ UpdateOwned \/ DeleteOwned
  PROVE  Follows'
  <1>0. /\ ModuleTyped /\ ModuleWorker /\ mlocal \in ModuleLocal /\ module \in ModuleRecord
        /\ obj \in [Version -> Object]
    BY DEF ModuleBase, ModuleTyped, TypeOK, Typed
  <1>l. Listed(module) \subseteq Version
    BY <1>0, ListedVersions
  <1>1. CASE CreateOwned
    <2> DEFINE v == Head(mlocal.todo)
               n == NewVersion(mlocal.refs[v], "given")
    <2>1. /\ v \in Version /\ UNCHANGED <<pc, module, mup, mqueue>>
          /\ obj' = obj \/ obj' = [obj EXCEPT ![v] = n]
      BY <1>1, Creation DEF others
    <2>2. /\ mpc = "create" /\ mqueue /\ mpc' = Round(Tail(mlocal.todo))
          /\ mlocal' = [mlocal EXCEPT !.todo = Tail(mlocal.todo)]
      BY <1>0, <1>1 DEF CreateOwned, ModuleWorker
    <2>3. mlocal.todo \in Seq(Version) /\ mlocal.todo # <<>>
      BY <1>0, <2>2, LoopHead DEF Loop
    <2>4. /\ mlocal'.todo = Tail(mlocal.todo) /\ mlocal'.module = mlocal.module
          /\ mlocal'.doomed = mlocal.doomed
      BY ONLY <1>0, <2>2 DEF ModuleLocal
    <2>5. Todo' \subseteq Todo
      BY <2>3, <2>4, TailLeft DEF Todo
    <2>6. ~n.deleting
      BY DEF NewVersion, Absent
    <2> HIDE DEF n, v
    <2>7. \A w \in Listed(module) : ~obj'[w].deleting
      BY <1>0, <1>l, <2>1, <2>6 DEF Follows
    <2>8. QED
      BY <2>1, <2>2, <2>4, <2>5, <2>7 DEF Follows
  <1>2. CASE UpdateOwned
    <2> DEFINE v == Head(mlocal.todo)
               o == mlocal.version
               n == Rewritten(o)
    <2>1. v \in Version /\ o \in Object /\ o.exists /\ UNCHANGED <<pc, module, mup>>
      BY <1>2, Replacement DEF others
    <2>2. CASE MReturn(TRUE) /\ UNCHANGED <<obj, queue>>
      BY <2>1, <2>2, ListGivenUp DEF MReturn
    <2>3. CASE /\ obj[v] = o /\ obj' = [obj EXCEPT ![v] = n]
               /\ mlocal' = [mlocal EXCEPT !.refs[v] = o.fileName, !.todo = Tail(mlocal.todo)]
               /\ mpc' = Round(Tail(mlocal.todo)) /\ mqueue' = mqueue
      <3>1. mlocal.todo \in Seq(Version) /\ mlocal.todo # <<>> /\ mpc = "update"
        BY <1>0, <1>2, LoopHead DEF Loop, UpdateOwned
      <3>2. /\ mlocal'.todo = Tail(mlocal.todo) /\ mlocal'.module = mlocal.module
            /\ mlocal'.doomed = mlocal.doomed
        <4> HIDE DEF o, v
        <4> QED
          BY ONLY <1>0, <2>3 DEF ModuleLocal
      <3>3. Todo' \subseteq Todo /\ Todo \subseteq Todo' \cup {v} /\ v \in Todo
        <4> DEFINE s == mlocal.todo
                   t == Tail(s)
        <4>1. /\ {t[i] : i \in DOMAIN t} \subseteq {s[i] : i \in DOMAIN s}
              /\ {s[i] : i \in DOMAIN s} \subseteq {t[i] : i \in DOMAIN t} \cup {Head(s)}
              /\ Head(s) \in {s[i] : i \in DOMAIN s}
          BY <3>1, TailLeft
        <4>2. Todo = {s[i] : i \in DOMAIN s} /\ Todo' = {t[i] : i \in DOMAIN t}
          BY <3>2 DEF Todo
        <4>3. QED
          BY <4>1, <4>2
      <3>4. v \in Listed(module) /\ ~o.deleting
        BY <2>3, <3>1, <3>3 DEF Follows
      <3>5. n.exists /\ ~n.deleting
        BY <2>1, <3>4, RewrittenFacts
      <3> HIDE DEF n, v, o
      <3>6. \A w \in Version : obj'[w] = IF w = v THEN n ELSE obj[w]
        BY <1>0, <2>3
      <3>7. \A w \in Listed(module) : ~obj'[w].deleting
        BY <1>l, <3>5, <3>6 DEF Follows
      <3>8. mup /\ ~mqueue => \A w \in Listed(module) \ Todo' : obj'[w].exists
        BY <1>l, <3>3, <3>5, <3>6 DEF Follows
      <3>9. mpc' \notin {"idle", "delete"}
        BY <2>3 DEF Round
      <3>10. QED
        BY <2>1, <2>3, <3>1, <3>2, <3>3, <3>7, <3>8, <3>9 DEF Follows
    <2>4. QED
      BY <1>2, <2>2, <2>3, Replacement
  <1>3. CASE DeleteOwned
    <2>0. mpc = "delete" /\ UNCHANGED <<pc, module, mup>>
      BY <1>3, Removal DEF others
    <2>t. mlocal.todo = <<>> /\ Todo = {}
      BY <1>0, <2>0 DEF ModuleWorker, Loop, Todo
    <2>1. CASE MReturn(TRUE) /\ UNCHANGED <<obj, queue>>
      BY <2>0, <2>1, ListGivenUp DEF MReturn
    <2>2. ASSUME NEW v \in mlocal.doomed, v \in Version, DeleteCall(v),
                 \/ mlocal.doomed = {v} /\ MReturn(FALSE)
                 \/ /\ mlocal' = [mlocal EXCEPT !.doomed = mlocal.doomed \ {v}]
                    /\ UNCHANGED <<mpc, mqueue>>
          PROVE  Follows'
      <3> DEFINE n == Deleted(obj[v])
      <3>1. v \notin Listed(module)
        BY DEF Follows
      <3>2. n.exists => n.deleting
        BY <1>0, <2>2, DeletedFacts, AbsentObject
      <3>3. \A w \in Version : obj'[w] = IF w = v THEN n ELSE obj[w]
        BY <1>0, <2>2 DEF DeleteCall
      <3> HIDE DEF n
      <3>4. /\ \A w \in Listed(module) : obj'[w] = obj[w]
            /\ \A w \in Version : obj'[w].exists /\ ~obj'[w].deleting
                                    => w # v /\ obj[w].exists /\ ~obj[w].deleting
        BY <1>l, <3>1, <3>2, <3>3
      <3>5. /\ mlocal'.doomed = mlocal.doomed \ {v} /\ Todo' = {}
            /\ mpc' # "idle" => mlocal'.module = mlocal.module
            /\ (mqueue => mqueue') /\ mpc' \in {"idle", "delete"}
        <4>1. CASE mlocal.doomed = {v} /\ MReturn(FALSE)
          <5>1. mpc' = "idle" /\ mlocal' = MIdle /\ (mqueue => mqueue')
            BY <4>1 DEF MReturn
          <5>2. Todo' = {} /\ mlocal'.doomed = {}
            BY <5>1, NothingTyped DEF Todo
          <5>3. QED
            BY <4>1, <5>1, <5>2
        <4>2. CASE /\ mlocal' = [mlocal EXCEPT !.doomed = mlocal.doomed \ {v}]
                   /\ UNCHANGED <<mpc, mqueue>>
          <5>1. /\ mlocal'.doomed = mlocal.doomed \ {v} /\ mlocal'.todo = mlocal.todo
                /\ mlocal'.module = mlocal.module
            BY ONLY <1>0, <4>2 DEF ModuleLocal
          <5>2. QED
            BY <2>0, <2>t, <4>2, <5>1 DEF Todo
        <4>3. QED
          BY <2>2, <4>1, <4>2
      <3>6. QED
        BY <2>0, <2>t, <3>4, <3>5 DEF Follows
    <2>3. QED
      BY <1>3, <2>1, <2>2, Removal
  <1>4. QED
    BY <1>1, <1>2, <1>3

\* The Version controller creates nothing, deletes nothing that is not
\* terminating already and brings nothing back.
LEMMA VersionSideObjects ==
  ASSUME ModuleBase, VersionSide, NEW w \in Version
  PROVE  /\ pc[w] \notin Deletion => (obj[w].exists => obj'[w].exists)
         /\ obj'[w].deleting => obj[w].deleting
         /\ obj'[w].exists => obj[w].exists
         /\ obj[w].deleting /\ obj'[w].exists => obj'[w].deleting
         /\ pc'[w] \in Deletion => pc[w] \in Deletion \/ obj[w].deleting
  <1>0. /\ TypeOK /\ obj \in [Version -> Object] /\ pc \in [Version -> Labels]
    BY DEF ModuleBase, TypeOK, Typed
  <1>1. ASSUME NEW v \in Version, v # w, Controller(v)
        PROVE  obj'[w] = obj[w] /\ pc'[w] = pc[w]
    BY <1>0, <1>1, Elsewhere DEF Untouched
  <1>2. CASE Controller(w)
    <2>0. obj[w] \in Object
      BY <1>0
    <2>p. pc'[w] \in Deletion => pc[w] \in Deletion \/ obj[w].deleting
      BY <1>0, <1>2, <2>0, ControllerWorker, BranchDeleting DEF Deletion
    <2>1. CASE Stage(obj'[w], obj[w])
      BY <2>1, <2>p DEF Stage
    <2>2. CASE obj'[w] = [obj[w] EXCEPT !.finalizer = TRUE]
      BY <2>0, <2>2, <2>p, StageWrites
    <2>3. CASE RemoveFinalizer(w) /\ obj'[w] = Absent
      BY <2>3, <2>p, AbsentObject DEF RemoveFinalizer, Deletion
    <2>4. \/ Stage(obj'[w], obj[w]) \/ obj'[w] = [obj[w] EXCEPT !.finalizer = TRUE]
          \/ RemoveFinalizer(w) /\ obj'[w] = Absent
      BY <1>0, <1>2, ControllerStage
    <2>5. QED
      BY <2>1, <2>2, <2>3, <2>4
  <1>3. CASE Crash \/ Restart
    BY <1>3 DEF Crash, Restart, api, Deletion
  <1>4. QED
    BY <1>1, <1>2, <1>3 DEF VersionSide

\* So what follows the list still does.
LEMMA VersionSideFollows ==
  ASSUME ModuleBase, Follows, VersionSide
  PROVE  Follows'
  <1>l. Listed(module) \subseteq Version
    BY ListedVersions DEF ModuleBase, ModuleTyped
  <1>m. UNCHANGED mvars /\ Todo' = Todo
    BY DEF VersionSide, mvars, Todo
  <1>1. QED
    BY <1>l, <1>m, VersionSideObjects DEF mvars, Follows

\* An operator who waits edits the list of controllers that rest.
LEMMA EditFollows ==
  ASSUME PatientOperator, ModuleBase, DeletionsPending, WriteModule
  PROVE  Follows'
  <1>0. Settled /\ ModuleTyped /\ ModuleWorker
    BY DEF WriteModule, ModuleBase
  <1>1. UNCHANGED <<obj, pc, mup, mpc, mlocal>> /\ mqueue' = mup /\ module' \in ModuleRecord
    BY <1>0, EditFacts DEF others
  <1>2. Listed(module') \subseteq Version
    BY <1>1, ListedVersions
  <1>3. \A v \in Version : pc[v] = "idle" /\ ~obj[v].deleting
    BY <1>0 DEF Settled, Busy, DeletionsPending, Deletion
  <1>4. mpc = "idle" /\ mup /\ mlocal.doomed = {}
    BY <1>0 DEF Settled, ModuleWorker
  <1>5. QED
    BY <1>1, <1>2, <1>3, <1>4 DEF Follows, Deletion

\* Only an operator brings a Module into being.
LEMMA ModuleStays ==
  ASSUME ModuleNext, ~WriteModule, module'.exists
  PROVE  ~RemoveModule /\ module.exists
  <1>1. ~RemoveModule
    BY DEF RemoveModule, NoModule
  <1>2. CASE ModuleReconcile \/ GetVersion \/ CreateOwned \/ UpdateOwned \/ Latest
               \/ ListOwned \/ DeleteOwned
    BY <1>1, <1>2 DEF ModuleReconcile, GetVersion, CreateOwned, UpdateOwned, Latest,
                      ListOwned, DeleteOwned
  <1>3. CASE WriteRefs \/ Trim \/ ModuleResetForceSync \/ ModuleStatus
    BY <1>1, <1>3 DEF WriteRefs, Trim, ModuleResetForceSync, ModuleStatus
  <1>4. CASE ModuleCallFails \/ ModuleCrash \/ ModuleRestart \/ ForceModule
    BY <1>1, <1>4 DEF ModuleCallFails, ModuleCrash, ModuleRestart, ForceModule
  <1>5. CASE \E v \in Version : GarbageCollect(v)
    BY <1>1, <1>5 DEF GarbageCollect, mvars
  <1>6. QED
    BY <1>1, <1>2, <1>3, <1>4, <1>5 DEF ModuleNext, ModuleStep

LEMMA ConvergeStep ==
  ASSUME PatientOperator, ModuleBase, HistoryInv, ConvergeInv, [Composed]_allVars
  PROVE  ConvergeInv'
  <1>0. DeletionsPending /\ (module.exists => Follows)
    BY FollowsList DEF ConvergeInv
  <1>1. CASE UNCHANGED allVars
    <2>1. UNCHANGED <<obj, pc, local, up, queue, module, mup, mqueue, mpc, mlocal>> /\ Todo' = Todo
      BY <1>1 DEF allVars, vars, mvars, Todo
    <2>2. QED
      BY <2>1 DEF ConvergeInv, DeletionsPending, ListFollowed
  <1>2. DeletionsPending' \/ UNCHANGED allVars
    BY <1>0, ModulePending, VersionSidePending DEF ModuleBase, Composed, VersionSide
  <1>3. ASSUME Composed, module'.exists PROVE Follows'
    <2>1. CASE VersionSide
      <3>1. module' = module
        BY <2>1 DEF VersionSide, mvars
      <3>2. QED
        BY <1>0, <1>3, <2>1, <3>1, VersionSideFollows
    <2>2. CASE WriteModule
      BY <1>0, <2>2, EditFollows
    <2>3. CASE ModuleNext /\ ~WriteModule
      <3>1. ~RemoveModule /\ module.exists
        BY <1>3, <2>3, ModuleStays
      <3>3. ASSUME NEW v \in Version PROVE ~GarbageCollect(v)
        BY <3>1 DEF GarbageCollect
      <3>4. QED
        BY <1>0, <2>3, <3>1, <3>3, AsideFollows, WritesFollow DEF ModuleNext, ModuleStep, Aside
    <2>4. QED
      BY <1>3, <2>1, <2>2, <2>3 DEF Composed, VersionSide
  <1>4. CASE Composed
    <2>1. ListFollowed'
      BY <1>3, <1>4 DEF ListFollowed, Follows
    <2>2. CASE UNCHANGED allVars
      BY <1>1, <2>2
    <2>3. CASE DeletionsPending'
      BY <2>1, <2>3 DEF ConvergeInv
    <2>4. QED
      BY <1>2, <2>2, <2>3
  <1>5. QED
    BY <1>1, <1>4

\* The invariant behind it holds in every state.
LEMMA ConvergeInvariance ==
  ASSUME PatientOperator
  PROVE  ModuleSpec => []ConvergeInv
  <1>1. ModuleInit => ConvergeInv
    <2> SUFFICES ASSUME ModuleInit PROVE ConvergeInv
      OBVIOUS
    <2>1. \A v \in Version : obj[v] = Absent /\ pc[v] = "idle"
      BY DEF ModuleInit, Init
    <2>2. ~module.exists /\ ~Absent.deleting
      BY AbsentObject, NothingTyped DEF ModuleInit
    <2>3. QED
      BY <2>1, <2>2 DEF ConvergeInv, DeletionsPending, ListFollowed, Deletion
  <1>2. ModuleInit => HistoryInv
    BY DEF ModuleInit, HistoryInv, NoModule
  <1>3. ModuleBase /\ HistoryInv /\ [Composed]_allVars => HistoryInv'
    BY HistoryStep
  <1>4. ModuleBase /\ HistoryInv /\ ConvergeInv /\ [Composed]_allVars => ConvergeInv'
    BY ConvergeStep
  <1>5. QED
    BY <1>1, <1>2, <1>3, <1>4, BaseInvariance, PTL DEF ModuleSpec

\* VersionsConverge: under an operator who edits the list only while both
\* controllers rest, every rest leaves exactly the Versions the Module lists,
\* and none of them terminating, whatever failed, crashed or was deleted on the
\* way.
THEOREM Convergence ==
  ASSUME PatientOperator
  PROVE  ModuleSpec => []VersionsConverge
  <1>1. ModuleBase /\ ConvergeInv => VersionsConverge
    <2> SUFFICES ASSUME ModuleBase, DeletionsPending, ListFollowed, Settled, module.exists,
                        NEW v \in Version
                 PROVE  (obj[v].exists <=> v \in Listed(module)) /\ ~obj[v].deleting
      BY DEF ConvergeInv, VersionsConverge
    <2>1. ModuleWorker /\ Follows
      BY FollowsList DEF ModuleBase
    <2>2. ~obj[v].deleting
      BY DEF Settled, Busy, DeletionsPending, Deletion
    <2>3. mlocal.doomed = {} /\ Todo = {}
      BY <2>1 DEF Settled, ModuleWorker, Loop, Todo
    <2>4. QED
      BY <2>1, <2>2, <2>3 DEF Settled, Follows
  <1>2. QED
    BY <1>1, BaseInvariance, ConvergeInvariance, PTL

-----------------------------------------------------------------------------
\* Workers without scans

\* What Plain and OwnNames say of one Version.
KeyPlain(v) ==
    /\ PlainSpec(obj[v]) /\ PlainSpec(local[v].version)
    /\ local[v].config # "dual"
    /\ pc[v] \in PlainSteps

KeyNamed(v) ==
    /\ obj[v].exists => obj[v].fileName # Nil
    /\ local[v].version.exists => local[v].version.fileName # Nil
    /\ pc[v] \in Naming \cup Recorded => local[v].fileName # Nil

\* The steps of a worker that scans nothing.
LEMMA PlainCases ==
  ASSUME ~ScanningEnabled, ModuleBase, NEW v \in Version, KeyPlain(v), Controller(v)
  PROVE  \/ Reconcile(v) \/ TimerFires(v) \/ AddFinalizer(v) \/ DeleteArtifact(v)
         \/ RemoveFinalizer(v) \/ Prepare(v) \/ FastPath(v) \/ FastPathFails(v)
         \/ AcquireDownload(v) \/ (Fetch(v) /\ ~Moved(v)) \/ FetchFails(v) \/ VerifyStored(v)
         \/ FirstPut(v) \/ Put(v) \/ UpdateSpec(v) \/ WriteStatus(v) \/ CallFails(v)
  <1>1. ~Moved(v)
    BY DEF ModuleBase, FromUpstream, Moved
  <1>2. pc[v] \in PlainSteps
    BY DEF KeyPlain
  <1>3. /\ ~WriteTerminal(v) /\ ~ResolvePolicy(v) /\ ~BinaryScan(v) /\ ~SourceDedup(v)
        /\ ~SourceScan(v) /\ ~PersistScanViolation(v) /\ ~ResetForceSync(v) /\ ~ApplyStored(v)
        /\ ~AcquireScan(v)
    BY <1>2 DEF PlainSteps, Deletion, WriteTerminal, ResolvePolicy, BinaryScan, SourceDedup,
       SourceScan, PersistScanViolation, ResetForceSync, ApplyStored, AcquireScan
  <1>4. QED
    BY <1>1, <1>3, ControllerCases DEF Quiet, Failure

\* The worker goes on with the object and what it knows.
GoesOn(v) == /\ obj' = obj /\ local' = local
             /\ pc[v] # "idle" /\ pc'[v] # "idle" /\ pc'[v] \in PlainSteps
             /\ pc'[v] \in Naming \cup Recorded => pc[v] \in Naming \cup Recorded
             /\ v \in queue => v \in queue'

LEMMA PlainGoesOn ==
  ASSUME ~ScanningEnabled, TypeOK, NEW v \in Version, KeyPlain(v),
         \/ DeleteArtifact(v) \/ (FastPath(v) /\ ~FastPathHit(v)) \/ FastPathFails(v)
         \/ AcquireDownload(v) \/ VerifyStored(v) \/ FirstPut(v) \/ Put(v)
  PROVE  GoesOn(v)
  <1>0. pc \in [Version -> Labels]
    BY DEF TypeOK, Typed
  <1> USE DEF GoesOn, Goto, api, PlainSteps, Deletion, Naming, Recorded, Labels, CallPoints, Unnamed
  <1>1. CASE DeleteArtifact(v)
    BY <1>0, <1>1 DEF DeleteArtifact
  <1>2. CASE FastPath(v) /\ ~FastPathHit(v)
    BY <1>0, <1>2 DEF FastPath
  <1>3. CASE FastPathFails(v) \/ AcquireDownload(v)
    BY <1>0, <1>3 DEF FastPathFails, AcquireDownload
  <1>4. CASE VerifyStored(v)
    BY <1>0, <1>4 DEF VerifyStored
  <1>5. CASE FirstPut(v) \/ Put(v)
    BY <1>0, <1>5 DEF FirstPut, Put
  <1>6. QED
    BY <1>1, <1>2, <1>3, <1>4, <1>5

\* The fields the Module controller's work rests on.
Kept(n, o) == /\ n.exists = o.exists /\ n.fileName = o.fileName /\ n.config = o.config
              /\ n.forceSync = o.forceSync /\ n.checksum = o.checksum /\ n.synced = o.synced

LEMMA KeptWrites ==
  ASSUME NEW o \in Object
  PROVE  /\ Kept([o EXCEPT !.finalizer = TRUE], o)
         /\ Kept([o EXCEPT !.message = "error"], o)
         /\ Kept(o, o)
  BY DEF Object, Kept

\* The worker returns and leaves the object as it is, as far as the Module
\* controller's work rests on it, or finishes a deletion.
GivesUp(v) == /\ Returns(v)
              /\ \/ Kept(obj'[v], obj[v])
                 \/ pc[v] \in Deletion /\ obj'[v] = Absent

LEMMA PlainGivesUp ==
  ASSUME TypeOK, NEW v \in Version,
         \/ AddFinalizer(v) \/ RemoveFinalizer(v) \/ (FastPath(v) /\ Returns(v)) \/ FetchFails(v)
         \/ CallFails(v) \/ (UpdateSpec(v) /\ ~obj[v].exists) \/ (WriteStatus(v) /\ ~obj[v].exists)
  PROVE  GivesUp(v) /\ (v \in queue => v \in queue')
         /\ (RemoveFinalizer(v) \/ FastPath(v) \/ v \in queue')
  <1>0. obj \in [Version -> Object] /\ obj[v] \in Object /\ local \in [Version -> Worker]
        /\ pc \in [Version -> Labels]
    BY DEF TypeOK, Typed
  <1>k. Kept(obj[v], obj[v])
    BY <1>0, KeptWrites
  <1> USE DEF GivesUp, Returns, Return, Requeue
  <1>1. CASE AddFinalizer(v)
    <2>1. obj'[v] = obj[v] \/ obj'[v] = [obj[v] EXCEPT !.finalizer = TRUE]
      BY <1>0, <1>1 DEF AddFinalizer
    <2>2. Kept(obj'[v], obj[v])
      BY <1>0, <1>k, <2>1, KeptWrites
    <2>3. QED
      BY <1>0, <1>1, <2>2 DEF AddFinalizer
  <1>2. CASE RemoveFinalizer(v)
    BY <1>0, <1>k, <1>2 DEF RemoveFinalizer, Deletion
  <1>3. CASE FastPath(v) /\ Returns(v)
    BY <1>k, <1>3 DEF FastPath, api
  <1>4. CASE FetchFails(v)
    <2>1. obj'[v] = obj[v] \/ obj'[v] = [obj[v] EXCEPT !.message = "error"]
      BY <1>0, <1>4 DEF FetchFails
    <2>2. Kept(obj'[v], obj[v])
      BY <1>0, <1>k, <2>1, KeptWrites
    <2>3. QED
      BY <1>0, <1>4, <2>2 DEF FetchFails
  <1>5. CASE CallFails(v)
    BY <1>0, <1>k, <1>5 DEF CallFails, api
  <1>6. CASE (UpdateSpec(v) /\ ~obj[v].exists) \/ (WriteStatus(v) /\ ~obj[v].exists)
    BY <1>0, <1>k, <1>6 DEF UpdateSpec, WriteStatus
  <1>7. QED
    BY <1>1, <1>2, <1>3, <1>4, <1>5, <1>6

\* The other steps of a plain worker, by what they do to the object and to what
\* the worker knows.
LEMMA PlainReconcile ==
  ASSUME ModuleBase, NEW v \in Version, KeyPlain(v), Reconcile(v)
  PROVE  /\ obj' = obj /\ pc[v] = "idle" /\ pc'[v] = Branch(obj[v]) /\ storage' = storage
         /\ pc'[v] \in {"idle", "addFinalizer", "prepare"} \cup Deletion
         /\ pc'[v] = "idle" => local'[v] = local[v] /\ (obj[v].exists => obj[v].deleting)
         /\ pc'[v] # "idle" => /\ obj[v].exists /\ local'[v].version = obj[v]
                               /\ local'[v].fileName = local[v].fileName
                               /\ local'[v].config = local[v].config
  <1>0. obj[v] \in Object /\ local \in [Version -> Worker] /\ pc \in [Version -> Labels]
        /\ (~obj[v].exists => obj[v] = Absent)
    BY DEF ModuleBase, TypeOK, Typed, Gone
  <1>1. obj' = obj /\ pc[v] = "idle" /\ pc'[v] = Branch(obj[v]) /\ storage' = storage
    BY <1>0 DEF Reconcile, Goto, api
  <1>2. /\ Branch(obj[v]) = "idle" => local'[v] = local[v]
        /\ Branch(obj[v]) # "idle" => /\ local'[v].version = obj[v]
                                      /\ local'[v].fileName = local[v].fileName
                                      /\ local'[v].config = local[v].config
    BY <1>0 DEF Reconcile, Worker
  <1>3. Branch(obj[v]) # "terminal" /\ (Branch(obj[v]) = "idle" /\ obj[v].exists => obj[v].deleting)
    BY <1>0, ObjectFields DEF Branch, KeyPlain, PlainSpec
  <1>4. QED
    BY <1>0, <1>1, <1>2, <1>3, BranchFacts DEF Deletion

LEMMA PlainPrepare ==
  ASSUME ModuleBase, NEW v \in Version, KeyPlain(v), KeyNamed(v), Prepare(v)
  PROVE  /\ obj' = obj /\ pc[v] = "prepare" /\ pc'[v] = "fastPath" /\ storage' = storage
         /\ queue' = queue
         /\ local'[v].version = local[v].version /\ local'[v].config # "dual"
         /\ local'[v].fileName \in {refs[v], local[v].version.fileName} \ {Nil}
  <1>0. local \in [Version -> Worker] /\ pc \in [Version -> Labels]
    BY DEF ModuleBase, TypeOK, Typed
  <1>1. obj' = obj /\ pc[v] = "prepare" /\ pc'[v] = "fastPath" /\ storage' = storage /\ queue' = queue
    BY <1>0 DEF Prepare, Goto, api
  <1>2. local[v].version.fileName # Nil
    BY <1>1 DEF ModuleBase, Reading, KeyNamed
  <1>3. \E f \in {refs[v], local[v].version.fileName} \ {Nil}, c \in {"module", local[v].version.config} :
           local' = [local EXCEPT ![v].fileName = f, ![v].config = c]
    BY <1>2 DEF Prepare
  <1>4. local[v].version.config # "dual"
    BY DEF KeyPlain, PlainSpec
  <1>5. QED
    BY <1>0, <1>1, <1>3, <1>4 DEF Worker

LEMMA PlainFetch ==
  ASSUME ModuleBase, NEW v \in Version, KeyNamed(v), Fetch(v), ~Moved(v)
  PROVE  /\ obj' = obj /\ storage' = storage /\ queue' = queue /\ pc[v] = "fetch"
         /\ pc'[v] = IF local[v].version.checksum # Nil THEN "verify" ELSE "firstPut"
         /\ local'[v].version = local[v].version /\ local'[v].config = local[v].config
         /\ local'[v].fileName = local[v].fileName
  <1>0. local \in [Version -> Worker] /\ pc \in [Version -> Labels]
    BY DEF ModuleBase, TypeOK, Typed
  <1>1. /\ obj' = obj /\ pc[v] = "fetch" /\ storage' = storage /\ queue' = queue
        /\ pc'[v] = IF local[v].version.checksum # Nil THEN "verify" ELSE "firstPut"
    BY <1>0 DEF Fetch, Goto
  <1>2. local[v].fileName # Nil
    BY <1>1 DEF KeyNamed, Naming
  <1>3. local' = [local EXCEPT ![v].archive = upstream[v], ![v].fileName = local[v].fileName]
    BY <1>2 DEF Fetch
  <1>4. QED
    BY <1>0, <1>1, <1>3 DEF Worker

LEMMA PlainUpdateSpec ==
  ASSUME ~ScanningEnabled, ModuleBase, NEW v \in Version, UpdateSpec(v), obj[v].exists
  PROVE  /\ local' = local /\ storage' = storage /\ pc[v] = "updateSpec" /\ pc'[v] = "writeStatus"
         /\ obj'[v].exists /\ obj'[v].fileName = local[v].fileName /\ obj'[v].config = local[v].config
         /\ obj'[v].forceSync = obj[v].forceSync /\ obj'[v].checksum = obj[v].checksum
         /\ obj'[v].synced = obj[v].synced /\ queue \subseteq queue'
  <1>0. obj \in [Version -> Object] /\ obj[v] \in Object /\ pc \in [Version -> Labels]
    BY DEF ModuleBase, TypeOK, Typed
  <1>1. /\ local' = local /\ storage' = storage /\ pc[v] = "updateSpec" /\ pc'[v] = "writeStatus"
        /\ obj'[v] = [obj[v] EXCEPT !.fileName = local[v].fileName, !.config = local[v].config]
        /\ queue \subseteq queue'
    BY <1>0, ZenonT(60) DEF UpdateSpec, Goto
  <1>2. QED
    BY <1>0, <1>1 DEF Object

LEMMA PlainWriteStatus ==
  ASSUME ModuleBase, NEW v \in Version, KeyPlain(v), WriteStatus(v), obj[v].exists
  PROVE  /\ Returns(v) /\ storage' = storage /\ pc[v] = "writeStatus"
         /\ obj'[v].exists /\ obj'[v].fileName = obj[v].fileName /\ obj'[v].config = obj[v].config
         /\ obj'[v].forceSync = obj[v].forceSync /\ obj'[v].checksum = upstream[v]
         /\ obj'[v].synced
  <1>0. obj \in [Version -> Object] /\ obj[v] \in Object /\ pc \in [Version -> Labels]
        /\ local \in [Version -> Worker] /\ local[v] \in Worker
    BY DEF ModuleBase, TypeOK, Typed
  <1> DEFINE o == WithScans(obj[v], local[v])
  <1>1. o \in Object
    BY <1>0, WithScansType
  <1>2. /\ o.exists /\ o.fileName = obj[v].fileName /\ o.config = obj[v].config
        /\ o.forceSync = obj[v].forceSync
    BY <1>0 DEF WithScans, Object
  <1>3. obj'[v] = [o EXCEPT !.synced = TRUE, !.checksum = local[v].archive, !.message = "ok"]
    BY <1>0 DEF WriteStatus
  <1>4. pc[v] = "writeStatus" /\ local[v].archive = upstream[v] /\ storage' = storage
    BY DEF WriteStatus, ModuleBase, FromUpstream, Fetched
  <1>5. Returns(v)
    BY <1>0 DEF WriteStatus, Finish, Return, Returns, KeyPlain, PlainSpec
  <1> HIDE DEF o
  <1>6. QED
    BY <1>1, <1>2, <1>3, <1>4, <1>5 DEF Object

LEMMA IdleFields ==
  /\ Idle.version = Absent /\ Idle.fileName = Nil /\ Idle.config # "dual"
  /\ PlainSpec(Absent) /\ ~Absent.exists /\ Absent.fileName = Nil
  BY DEF Idle, Absent, PlainSpec

\* A return keeps the names and the plainness of its Version.
LEMMA ReturnsPlain ==
  ASSUME NEW v \in Version, KeyPlain(v), KeyNamed(v), Returns(v), refs' = refs, mlocal' = mlocal,
         PlainSpec(obj'[v]), obj'[v].exists => obj'[v].fileName # Nil,
         obj'[v].fileName \in AllNames(v) \cup {Nil}
  PROVE  KeyPlain(v)' /\ KeyNamed(v)' /\ AllNames(v)' \subseteq AllNames(v)
  <1>1. pc'[v] = "idle" /\ local'[v] = Idle
    BY DEF Returns
  <1>2. "idle" \in PlainSteps /\ "idle" \notin Naming \cup Recorded
    BY DEF PlainSteps, Naming, Recorded, Unnamed
  <1>3. KeyPlain(v)'
    BY <1>1, <1>2, IdleFields DEF KeyPlain
  <1>4. KeyNamed(v)'
    BY <1>1, <1>2, IdleFields DEF KeyNamed
  <1>5. AllNames(v)' \subseteq AllNames(v)
    BY <1>1, IdleFields DEF AllNames
  <1>6. QED
    BY <1>3, <1>4, <1>5

\* A plain worker stays plain, and takes no name but the ones of its Version.
LEMMA PlainStep ==
  ASSUME ~ScanningEnabled, ModuleBase, NEW v \in Version, KeyPlain(v), KeyNamed(v),
         Controller(v), mlocal' = mlocal
  PROVE  KeyPlain(v)' /\ KeyNamed(v)' /\ AllNames(v)' \subseteq AllNames(v)
  <1>0. TypeOK
    BY DEF ModuleBase
  <1>r. refs' = refs
    BY <1>0, ControllerFrame
  <1>n. obj[v].fileName \in AllNames(v) \cup {Nil}
    BY DEF AllNames
  <1>1. CASE GoesOn(v)
    <2>1. KeyPlain(v)' /\ KeyNamed(v)'
      BY <1>1 DEF GoesOn, KeyPlain, KeyNamed
    <2>2. AllNames(v)' = AllNames(v)
      BY <1>1, <1>r DEF GoesOn, AllNames
    <2>3. QED
      BY <2>1, <2>2
  <1>2. CASE GivesUp(v)
    <2>1. /\ PlainSpec(obj'[v]) /\ (obj'[v].exists => obj'[v].fileName # Nil)
          /\ obj'[v].fileName \in AllNames(v) \cup {Nil}
      <3>1. CASE Kept(obj'[v], obj[v])
        BY <1>n, <3>1 DEF Kept, KeyPlain, KeyNamed, PlainSpec
      <3>2. CASE obj'[v] = Absent
        BY <3>2, IdleFields
      <3>3. QED
        BY <1>2, <3>1, <3>2 DEF GivesUp
    <2>2. QED
      BY <1>2, <1>r, <2>1, ReturnsPlain DEF GivesUp
  <1>3. CASE Reconcile(v)
    <2>1. CASE pc'[v] = "idle"
      <3>1. obj' = obj /\ local'[v] = local[v] /\ pc'[v] = pc[v]
        BY <1>3, <2>1, PlainReconcile
      <3>2. QED
        BY <1>r, <3>1 DEF KeyPlain, KeyNamed, AllNames
    <2>2. CASE pc'[v] # "idle"
      <3>1. /\ obj' = obj /\ pc'[v] \in {"addFinalizer", "prepare"} \cup Deletion
            /\ obj[v].exists /\ local'[v].version = obj[v]
            /\ local'[v].fileName = local[v].fileName
            /\ local'[v].config = local[v].config
        BY <1>3, <2>2, PlainReconcile
      <3>2. pc'[v] \in PlainSteps /\ pc'[v] \notin Naming \cup Recorded
        BY <3>1 DEF PlainSteps, Deletion, Naming, Recorded, Unnamed
      <3>3. QED
        BY <1>r, <3>1, <3>2 DEF KeyPlain, KeyNamed, AllNames
    <2>3. QED
      BY <2>1, <2>2
  <1>4. CASE TimerFires(v)
    BY <1>4, <1>r DEF TimerFires, api, KeyPlain, KeyNamed, AllNames
  <1>5. CASE Prepare(v)
    <2>1. /\ obj' = obj /\ pc'[v] = "fastPath"
          /\ local'[v].version = local[v].version /\ local'[v].config # "dual"
          /\ local'[v].fileName \in {refs[v], local[v].version.fileName} \ {Nil}
      BY <1>5, PlainPrepare
    <2>2. "fastPath" \in PlainSteps
      BY DEF PlainSteps
    <2>3. KeyPlain(v)' /\ KeyNamed(v)'
      BY <2>1, <2>2 DEF KeyPlain, KeyNamed
    <2>4. AllNames(v)' \subseteq AllNames(v)
      BY <1>r, <2>1 DEF AllNames
    <2>5. QED
      BY <2>3, <2>4
  <1>6. CASE Fetch(v) /\ ~Moved(v)
    <2>1. /\ obj' = obj /\ pc[v] = "fetch" /\ pc'[v] \in {"verify", "firstPut"}
          /\ local'[v].version = local[v].version /\ local'[v].config = local[v].config
          /\ local'[v].fileName = local[v].fileName
      BY <1>6, PlainFetch
    <2>2. pc'[v] \in PlainSteps /\ pc[v] \in Naming
      BY <2>1 DEF PlainSteps, Naming
    <2>3. QED
      BY <1>r, <2>1, <2>2 DEF KeyPlain, KeyNamed, AllNames
  <1>7. CASE UpdateSpec(v) /\ obj[v].exists
    <2>1. /\ local' = local /\ pc[v] = "updateSpec" /\ pc'[v] = "writeStatus"
          /\ obj'[v].exists /\ obj'[v].fileName = local[v].fileName /\ obj'[v].config = local[v].config
          /\ obj'[v].forceSync = obj[v].forceSync
      BY <1>7, PlainUpdateSpec
    <2>2. "writeStatus" \in PlainSteps /\ "updateSpec" \in Naming
      BY DEF PlainSteps, Naming
    <2>3. local[v].fileName # Nil
      BY <2>1, <2>2 DEF KeyNamed
    <2>4. KeyPlain(v)' /\ KeyNamed(v)'
      BY <2>1, <2>2, <2>3 DEF KeyPlain, KeyNamed, PlainSpec
    <2>5. AllNames(v)' \subseteq AllNames(v)
      BY <1>r, <2>1 DEF AllNames
    <2>6. QED
      BY <2>4, <2>5
  <1>8. CASE WriteStatus(v) /\ obj[v].exists
    <2>1. /\ Returns(v) /\ obj'[v].fileName = obj[v].fileName /\ obj'[v].config = obj[v].config
          /\ obj'[v].forceSync = obj[v].forceSync
      BY <1>8, PlainWriteStatus
    <2>2. PlainSpec(obj'[v]) /\ obj'[v].fileName # Nil
      BY <1>8, <2>1 DEF KeyPlain, KeyNamed, PlainSpec
    <2>3. QED
      BY <1>n, <1>r, <2>1, <2>2, ReturnsPlain
  <1>9. CASE FastPath(v)
    <2>1. CASE FastPathHit(v)
      <3>1. Returns(v)
        BY <1>0, <1>9, <2>1 DEF FastPath, HasStoredScan, Return, Returns, TypeOK, Typed
      <3>2. QED
        BY <1>0, <1>2, <1>9, <3>1, PlainGivesUp
    <2>2. CASE ~FastPathHit(v)
      BY <1>0, <1>1, <1>9, <2>2, PlainGoesOn
    <2>3. QED
      BY <2>1, <2>2
  <1>10. CASE \/ AddFinalizer(v) \/ RemoveFinalizer(v) \/ FetchFails(v) \/ CallFails(v)
              \/ (UpdateSpec(v) /\ ~obj[v].exists) \/ (WriteStatus(v) /\ ~obj[v].exists)
    BY <1>0, <1>2, <1>10, PlainGivesUp
  <1>11. CASE DeleteArtifact(v) \/ FastPathFails(v) \/ AcquireDownload(v) \/ VerifyStored(v)
              \/ FirstPut(v) \/ Put(v)
    BY <1>0, <1>1, <1>11, PlainGoesOn
  <1>12. QED
    BY <1>3, <1>4, <1>5, <1>6, <1>7, <1>8, <1>9, <1>10, <1>11, PlainCases

\* The steps of all workers.
LEMMA VersionSidePlain ==
  ASSUME ~ScanningEnabled, ModuleBase, VersionSide, \A v \in Version : KeyPlain(v) /\ KeyNamed(v),
         NEW w \in Version
  PROVE  KeyPlain(w)' /\ KeyNamed(w)' /\ AllNames(w)' \subseteq AllNames(w)
  <1>0. TypeOK /\ mlocal' = mlocal
    BY DEF ModuleBase, VersionSide, mvars
  <1>1. ASSUME NEW v \in Version, Controller(v)
        PROVE  KeyPlain(w)' /\ KeyNamed(w)' /\ AllNames(w)' \subseteq AllNames(w)
    <2>1. CASE v = w
      BY <1>0, <1>1, <2>1, PlainStep
    <2>2. CASE v # w
      <3>1. obj'[w] = obj[w] /\ local'[w] = local[w] /\ pc'[w] = pc[w] /\ refs' = refs
        BY <1>0, <1>1, <2>2, Elsewhere, ControllerFrame DEF Untouched
      <3>2. QED
        BY <1>0, <3>1 DEF KeyPlain, KeyNamed, AllNames
    <2>3. QED
      BY <2>1, <2>2
  <1>2. CASE Crash
    <2>1. Returns(w) /\ obj' = obj /\ refs' = refs
      BY <1>2 DEF Crash, Returns, api
    <2>2. obj[w].fileName \in AllNames(w) \cup {Nil}
      BY DEF AllNames
    <2>3. QED
      BY <1>0, <2>1, <2>2, ReturnsPlain DEF KeyPlain, KeyNamed
  <1>3. CASE Restart
    BY <1>0, <1>3 DEF Restart, api, KeyPlain, KeyNamed, AllNames
  <1>4. QED
    BY <1>1, <1>2, <1>3 DEF VersionSide

-----------------------------------------------------------------------------
\* Served Versions

\* The file of a Version changes by its own worker.
LEMMA OwnFile ==
  ASSUME ModuleBase, OwnNames, VersionSide, NEW w \in Version, NEW f \in AllNames(w)
  PROVE  \/ storage'[f] = storage[f]
         \/ DeleteArtifact(w)
         \/ /\ pc[w] \in {"firstPut", "put"} /\ local[w].fileName = f
            /\ FirstPut(w) \/ Put(w) \/ CallFails(w) \/ Crash
  <1>0. Typed /\ mlocal \in ModuleLocal
    BY DEF ModuleBase, TypeOK, ModuleTyped
  <1>1. f \in File
    <2>1. /\ obj[w] \in Object /\ local[w] \in Worker /\ refs[w] \in FileOrNil
          /\ mlocal.refs[w] \in FileOrNil
      BY <1>0, MLocalFields DEF Typed
    <2>2. local[w].version \in Object /\ local[w].fileName \in FileOrNil
      BY <2>1, WorkerFields
    <2>3. obj[w].fileName \in FileOrNil /\ local[w].version.fileName \in FileOrNil
      BY <2>1, <2>2, ObjectFields
    <2>4. QED
      BY <2>1, <2>2, <2>3 DEF AllNames
  <1>2. ASSUME NEW v \in Version, local[v].version.fileName = f PROVE v = w
    BY <1>1, <1>2 DEF OwnNames, AllNames
  <1>3. ASSUME NEW v \in Version, local[v].fileName = f PROVE v = w
    BY <1>1, <1>3 DEF OwnNames, AllNames
  <1>4. QED
    BY <1>0, <1>1, <1>2, <1>3, ControllerStorage DEF VersionSide

\* A synced Version has a name, and so has a worker past the upload.
LEMMA ServedNames ==
  ASSUME ModuleBase, NEW v \in Version, KeyNamed(v)
  PROVE  /\ obj[v].synced => obj[v].exists /\ obj[v].fileName \in AllNames(v)
         /\ pc[v] \in {"verify", "firstPut", "put", "updateSpec", "writeStatus"}
               => local[v].fileName \in AllNames(v)
         /\ obj[v].checksum # Nil => obj[v].checksum = upstream[v]
         /\ upstream[v] # Nil
  <1>1. obj[v].synced => obj[v].exists
    BY AbsentObject DEF ModuleBase, TypeOK, Gone
  <1>2. pc[v] \in {"verify", "firstPut", "put", "updateSpec", "writeStatus"}
          => pc[v] \in Naming \cup Recorded
    BY DEF Naming, Recorded, Labels, CallPoints, Unnamed
  <1>3. upstream[v] # Nil
    BY DEF ModuleBase, TypeOK, Typed
  <1>4. QED
    BY <1>1, <1>2, <1>3 DEF KeyNamed, AllNames, ModuleBase, FromUpstream

\* The worker returns.
LEMMA ServedReturns ==
  ASSUME NEW v \in Version, ServedOrQueued(v), Returns(v), Kept(obj'[v], obj[v]),
         upstream' = upstream,
         obj[v].synced => storage'[obj[v].fileName] = storage[obj[v].fileName],
         v \in queue' \/ obj[v].synced \/ ~up' \/ ~obj[v].exists
  PROVE  ServedOrQueued(v)'
  BY DEF ServedOrQueued, Returns, Kept

\* Nothing happens to the Version, and nothing to its file.
LEMMA ServedElsewhere ==
  ASSUME ModuleBase, NEW v \in Version, KeyNamed(v), ServedOrQueued(v), Untouched(v),
         up' = up, upstream' = upstream, \A f \in AllNames(v) : storage'[f] = storage[f]
  PROVE  ServedOrQueued(v)'
  <1>1. obj[v].synced => storage'[obj[v].fileName] = storage[obj[v].fileName]
    BY ServedNames
  <1>2. pc[v] \in {"updateSpec", "writeStatus"} => storage'[local[v].fileName] = storage[local[v].fileName]
    BY ServedNames
  <1>3. QED
    BY <1>1, <1>2 DEF ServedOrQueued, Untouched

\* The worker of a Version that is not deleted.
LEMMA ServedStep ==
  ASSUME ~ScanningEnabled, ModuleBase, NEW v \in Version, KeyPlain(v), KeyNamed(v),
         ServedOrQueued(v), Controller(v), ~obj[v].deleting, pc[v] \notin Deletion,
         \A f \in AllNames(v) : \/ storage'[f] = storage[f]
                                \/ DeleteArtifact(v)
                                \/ pc[v] \in {"firstPut", "put"} /\ local[v].fileName = f
  PROVE  ServedOrQueued(v)'
  <1>0. /\ TypeOK /\ obj \in [Version -> Object] /\ local \in [Version -> Worker]
        /\ pc \in [Version -> Labels] /\ storage \in [File -> Contents]
    BY DEF ModuleBase, TypeOK, Typed
  <1>u. upstream' = upstream /\ up' = up
    BY <1>0, ControllerFrame
  <1>f. obj[v].synced => storage'[obj[v].fileName] = storage[obj[v].fileName]
    <2>1. ~DeleteArtifact(v)
      BY DEF DeleteArtifact, Deletion
    <2>2. QED
      BY <2>1, ServedNames DEF ServedOrQueued
  <1>d. ~DeleteArtifact(v) /\ ~RemoveFinalizer(v)
    BY DEF DeleteArtifact, RemoveFinalizer, Deletion
  <1>1. CASE Reconcile(v)
    <2>1. /\ obj' = obj /\ pc[v] = "idle" /\ storage' = storage
          /\ pc'[v] \in {"idle", "addFinalizer", "prepare"} \cup Deletion
          /\ pc'[v] = "idle" => ~obj[v].exists
          /\ pc'[v] # "idle" => obj[v].exists /\ local'[v].version = obj[v]
      BY <1>1, PlainReconcile
    <2>2. QED
      BY <1>u, <2>1 DEF ServedOrQueued, Deletion
  <1>2. CASE TimerFires(v)
    BY <1>2, <1>u DEF TimerFires, api, ServedOrQueued
  <1>3. CASE Prepare(v)
    <2>1. /\ obj' = obj /\ pc[v] = "prepare" /\ pc'[v] = "fastPath" /\ storage' = storage
          /\ local'[v].version = local[v].version
      BY <1>3, PlainPrepare
    <2>2. QED
      BY <1>u, <2>1 DEF ServedOrQueued
  <1>4. CASE FastPath(v)
    <2>1. CASE FastPathHit(v)
      <3>1. Returns(v) /\ obj' = obj
        BY <1>0, <1>4, <2>1 DEF FastPath, HasStoredScan, Return, Returns, api
      <3>2. obj[v].synced
        BY <1>4, <2>1 DEF FastPath, FastPathHit, ServedOrQueued
      <3>3. Kept(obj'[v], obj[v])
        BY <1>0, <3>1, KeptWrites
      <3>4. QED
        BY <1>f, <1>u, <3>1, <3>2, <3>3, ServedReturns
    <2>2. CASE ~FastPathHit(v)
      <3>1. obj' = obj /\ local' = local /\ pc[v] = "fastPath" /\ pc'[v] = "download" /\ storage' = storage
        BY <1>0, <1>4, <2>2 DEF FastPath, Goto, api
      <3>2. QED
        BY <1>u, <3>1 DEF ServedOrQueued
    <2>3. QED
      BY <2>1, <2>2
  <1>5. CASE FastPathFails(v) \/ AcquireDownload(v)
    <2>1. /\ obj' = obj /\ local' = local /\ pc[v] # "idle" /\ pc'[v] \in {"download", "fetch"}
          /\ storage' = storage
      BY <1>0, <1>5 DEF FastPathFails, AcquireDownload, Goto, api
    <2>2. QED
      BY <1>u, <2>1 DEF ServedOrQueued
  <1>6. CASE Fetch(v) /\ ~Moved(v)
    <2>1. /\ obj' = obj /\ storage' = storage /\ pc[v] = "fetch"
          /\ pc'[v] = IF local[v].version.checksum # Nil THEN "verify" ELSE "firstPut"
          /\ local'[v].version = local[v].version
      BY <1>6, PlainFetch
    <2>2. local[v].version.checksum = obj[v].checksum /\ (obj[v].checksum = Nil => ~obj[v].synced)
      BY <2>1, ServedNames DEF ServedOrQueued
    <2>3. QED
      BY <1>u, <2>1, <2>2 DEF ServedOrQueued
  <1>7. CASE VerifyStored(v)
    <2>1. /\ obj' = obj /\ local' = local /\ storage' = storage /\ pc[v] = "verify"
          /\ pc'[v] = IF storage[local[v].fileName] = local[v].version.checksum
                      THEN "updateSpec" ELSE "put"
      BY <1>0, <1>7 DEF VerifyStored, Goto, api
    <2>2. local[v].version.checksum = upstream[v]
      BY <2>1, ServedNames DEF ServedOrQueued
    <2>3. QED
      BY <1>u, <2>1, <2>2 DEF ServedOrQueued
  <1>8. CASE FirstPut(v) \/ Put(v)
    <2>1. /\ obj' = obj /\ local' = local /\ pc[v] \in {"firstPut", "put"}
          /\ pc'[v] = IF pc[v] = "put" THEN "updateSpec" ELSE "put"
      BY <1>0, <1>8 DEF FirstPut, Put, Goto, api
    <2>2. storage'[local[v].fileName] = upstream[v]
      <3>1. local[v].fileName \in File
        <4>1. local[v].fileName \in FileOrNil /\ local[v].fileName # Nil
          BY <1>0, <2>1, ServedNames, WorkerFields DEF AllNames
        <4>2. QED
          BY <4>1
      <3>2. local[v].archive = upstream[v]
        BY <2>1 DEF ModuleBase, FromUpstream, Fetched
      <3>3. QED
        BY <1>0, <1>8, <3>1, <3>2 DEF FirstPut, Put, Upload
    <2>3. QED
      BY <1>f, <1>u, <2>1, <2>2 DEF ServedOrQueued
  <1>9. CASE UpdateSpec(v)
    <2>1. obj[v].exists
      BY <1>9 DEF UpdateSpec, ServedOrQueued
    <2>2. /\ local' = local /\ storage' = storage /\ pc[v] = "updateSpec" /\ pc'[v] = "writeStatus"
          /\ obj'[v].exists /\ obj'[v].fileName = local[v].fileName
          /\ obj'[v].checksum = obj[v].checksum /\ obj'[v].synced = obj[v].synced
      BY <1>9, <2>1, PlainUpdateSpec
    <2>3. QED
      BY <1>u, <2>2 DEF ServedOrQueued
  <1>10. CASE WriteStatus(v)
    <2>1. obj[v].exists
      BY <1>10 DEF WriteStatus, ServedOrQueued
    <2>2. /\ Returns(v) /\ storage' = storage /\ pc[v] = "writeStatus"
          /\ obj'[v].exists /\ obj'[v].fileName = obj[v].fileName
          /\ obj'[v].checksum = upstream[v] /\ obj'[v].synced
      BY <1>10, <2>1, PlainWriteStatus
    <2>3. QED
      BY <1>u, <2>2 DEF ServedOrQueued, Returns
  <1>11. CASE AddFinalizer(v) \/ FetchFails(v) \/ CallFails(v)
    <2>1. ~FastPath(v)
      <3>1. CASE AddFinalizer(v) \/ FetchFails(v)
        BY <3>1 DEF AddFinalizer, FetchFails, FastPath
      <3>2. CASE CallFails(v)
        BY <3>2 DEF CallFails, CallPoints, FastPath
      <3>3. QED
        BY <1>11, <3>1, <3>2
    <2>2. GivesUp(v) /\ v \in queue'
      BY <1>0, <1>11, <1>d, <2>1, PlainGivesUp
    <2>3. Returns(v) /\ Kept(obj'[v], obj[v])
      BY <2>2 DEF GivesUp
    <2>4. QED
      BY <1>f, <1>u, <2>2, <2>3, ServedReturns
  <1>12. QED
    BY <1>d, <1>1, <1>2, <1>3, <1>4, <1>5, <1>6, <1>7, <1>8, <1>9, <1>10, <1>11, PlainCases

LEMMA VersionSideServed ==
  ASSUME ~ScanningEnabled, ModuleBase, OwnNames, VersionSide,
         NEW w \in Version, KeyPlain(w), KeyNamed(w), ServedOrQueued(w),
         ~obj[w].deleting, pc[w] \notin Deletion
  PROVE  ServedOrQueued(w)'
  <1>0. TypeOK
    BY DEF ModuleBase
  <1>f. \A f \in AllNames(w) : \/ storage'[f] = storage[f]
                               \/ DeleteArtifact(w)
                               \/ /\ pc[w] \in {"firstPut", "put"} /\ local[w].fileName = f
                                  /\ FirstPut(w) \/ Put(w) \/ CallFails(w) \/ Crash
    BY OwnFile
  <1>d. ~DeleteArtifact(w)
    BY DEF DeleteArtifact, Deletion
  <1>1. CASE Controller(w)
    BY <1>1, <1>f, ServedStep
  <1>2. ASSUME NEW v \in Version, v # w, Controller(v)
        PROVE  ServedOrQueued(w)'
    <2>1. Untouched(w) /\ upstream' = upstream /\ up' = up
      BY <1>0, <1>2, Elsewhere, ControllerFrame
    <2>2. CASE FirstPut(w) \/ Put(w) \/ CallFails(w)
      BY <1>1, <2>2 DEF Controller, WorkerStep, Failure
    <2>3. CASE Crash
      <3>1. ~up'
        BY <2>3 DEF Crash
      <3>2. up
        BY <2>3 DEF Crash
      <3>3. QED
        BY <2>1, <3>1, <3>2
    <2>4. CASE ~(FirstPut(w) \/ Put(w) \/ CallFails(w) \/ Crash)
      BY <1>d, <1>f, <2>1, <2>4, ServedElsewhere
    <2>5. QED
      BY <2>2, <2>3, <2>4
  <1>3. CASE Crash
    <2>1. Returns(w) /\ obj' = obj /\ upstream' = upstream /\ ~up'
      BY <1>3 DEF Crash, Returns, api
    <2>2. Kept(obj'[w], obj[w])
      BY <2>1 DEF Kept
    <2>3. obj[w].synced => storage'[obj[w].fileName] = storage[obj[w].fileName]
      BY <1>d, <1>f, ServedNames DEF ServedOrQueued
    <2>4. QED
      BY <2>1, <2>2, <2>3, ServedReturns
  <1>4. CASE Restart
    <2>1. /\ UNCHANGED <<obj, local, pc, storage, upstream>>
          /\ obj[w].exists /\ ~obj[w].synced => w \in queue'
      BY <1>4 DEF Restart, PassesCreate, api, world
    <2>2. QED
      BY <2>1 DEF ServedOrQueued
  <1>5. QED
    BY <1>1, <1>2, <1>3, <1>4 DEF VersionSide

-----------------------------------------------------------------------------
\* The names and the budgets of the Module controller

\* Before the first edit nothing can happen to Versions.
LEMMA PristineStep ==
  ASSUME ModuleBase, Pristine, ModuleNext
  PROVE  Pristine'
  <1>0. ModuleTyped /\ mbudget["edit"] \in Nat /\ "edit" \in ModuleEvent
    BY DEF ModuleBase, ModuleTyped, ModuleEvent
  <1>1. ASSUME MSpend("disturb") PROVE mbudget'["edit"] = mbudget["edit"]
    BY <1>0, <1>1, MSpendType DEF ModuleEvent
  <1>2. CASE WriteModule
    <2>1. mbudget'["edit"] = mbudget["edit"] - 1
      BY <1>0, <1>2, MSpendType DEF WriteModule
    <2>2. /\ mbudget'["edit"] \in Int /\ ModuleBudget["edit"] \in Int
          /\ mbudget'["edit"] < ModuleBudget["edit"]
      BY <1>0, <2>1, ModuleConstants DEF Pristine
    <2>3. mbudget'["edit"] <= ModuleBudget["edit"] /\ mbudget'["edit"] # ModuleBudget["edit"]
      BY <2>2
    <2>4. QED
      BY <2>3 DEF Pristine
  <1>3. CASE ~WriteModule
    <2>1. mbudget'["edit"] = mbudget["edit"]
      <3>1. CASE Aside
        BY <1>1, <1>3, <3>1
        DEF Aside, ModuleReconcile, GetVersion, WriteRefs, Latest, Trim, ModuleResetForceSync,
            ModuleStatus, ListOwned, ModuleCallFails, ModuleCrash, ModuleRestart, ForceModule,
            RemoveModule
      <3>2. CASE CreateOwned \/ UpdateOwned \/ DeleteOwned \/ \E v \in Version : GarbageCollect(v)
        BY <1>1, <3>2 DEF CreateOwned, UpdateOwned, DeleteOwned, GarbageCollect, mvars
      <3>3. QED
        BY <3>1, <3>2 DEF ModuleNext, ModuleStep, Aside
    <2>2. ASSUME mbudget["edit"] = ModuleBudget["edit"]
          PROVE  ~module'.exists /\ mpc' = "idle" /\ \A v \in Version : ~obj'[v].exists
      <3>1. ~module.exists /\ mpc = "idle" /\ \A v \in Version : ~obj[v].exists
        BY <2>2 DEF Pristine
      <3>2. ModuleReconcile \/ ModuleCrash \/ ModuleRestart
        BY <1>3, <3>1
        DEF ModuleNext, ModuleStep, GetVersion, WriteRefs, CreateOwned, UpdateOwned, Latest, Trim,
            ModuleResetForceSync, ModuleStatus, ListOwned, DeleteOwned, ModuleCallFails,
            ForceModule, RemoveModule, GarbageCollect
      <3>3. QED
        BY <3>1, <3>2 DEF ModuleReconcile, ModuleCrash, ModuleRestart, vars
    <2>3. QED
      BY <2>1, <2>2 DEF Pristine
  <1>4. QED
    BY <1>2, <1>3

\* The steps aside move names between the map and the status, or forget them.
LEMMA AsideNames ==
  ASSUME ModuleBase, Aside, ~(WriteRefs /\ module.exists)
  PROVE  /\ mlocal'.refs \in {mlocal.refs, NoRefs}
         /\ refs' \in {refs, mlocal.refs, NoRefs}
         /\ mpc' = "create" => mpc = "create" /\ mlocal' = mlocal
  <1>0. mlocal \in ModuleLocal /\ ModuleTyped
    BY DEF ModuleBase, ModuleTyped
  <1>n. MIdle.refs = NoRefs
    BY DEF MIdle
  <1>r. ASSUME NEW b, MReturn(b) PROVE mlocal'.refs = NoRefs /\ mpc' # "create"
    BY <1>n, <1>r DEF MReturn
  <1>1. CASE ModuleReconcile
    <2>1. CASE module.exists
      <3>1. mlocal' = [MIdle EXCEPT !.module = module, !.todo = module.versions]
        BY <1>1, <2>1 DEF ModuleReconcile
      <3>2. mlocal'.refs = NoRefs
        BY <3>1 DEF MIdle
      <3>3. QED
        BY <1>1, <2>1, <3>2, RoundFacts DEF ModuleReconcile, vars
    <2>2. CASE ~module.exists
      BY <1>1, <2>2 DEF ModuleReconcile, vars
    <2>3. QED
      BY <2>1, <2>2
  <1>2. CASE GetVersion
    <2>1. \/ mlocal' = mlocal
          \/ mlocal' = [mlocal EXCEPT !.version = obj[Head(mlocal.todo)]]
      BY <1>2 DEF GetVersion
    <2>2. mlocal'.refs = mlocal.refs
      BY ONLY <1>0, <2>1 DEF ModuleLocal
    <2>3. QED
      BY <1>2, <2>2 DEF GetVersion, vars
  <1>3. CASE WriteRefs
    BY <1>3, <1>r DEF WriteRefs
  <1>4. CASE Latest
    <2> DEFINE l == GetLatestVersion(mlocal.module.versions)
    <2>1. refs' = refs /\ mpc = "latest"
      BY <1>4 DEF Latest, vars
    <2>2. CASE MReturn(TRUE)
      BY <1>r, <2>1, <2>2
    <2>3. CASE ~MReturn(TRUE)
      <3>1. mlocal' = [mlocal EXCEPT !.latest = l] /\ mpc' # "create"
        BY <1>4, <2>3 DEF Latest, AfterTrim
      <3> HIDE DEF l
      <3>2. mlocal'.refs = mlocal.refs
        BY ONLY <1>0, <3>1 DEF ModuleLocal
      <3>3. QED
        BY <2>1, <3>1, <3>2
    <2>4. QED
      BY <2>2, <2>3
  <1>5. CASE Trim
    <2> DEFINE m == [module EXCEPT !.versions = VersionsToKeep(mlocal.module.versions)]
    <2>1. CASE module.exists
      <3>1. mlocal' = [mlocal EXCEPT !.module = m] /\ mpc' # "create" /\ refs' = refs
        BY <1>5, <2>1 DEF Trim, AfterTrim, vars
      <3> HIDE DEF m
      <3>2. mlocal'.refs = mlocal.refs
        BY ONLY <1>0, <3>1 DEF ModuleLocal
      <3>3. QED
        BY <3>1, <3>2
    <2>2. CASE ~module.exists
      BY <1>5, <1>r, <2>2 DEF Trim, vars
    <2>3. QED
      BY <2>1, <2>2
  <1>6. CASE ModuleResetForceSync
    BY <1>6, <1>r DEF ModuleResetForceSync, vars
  <1>7. CASE ModuleStatus
    <2> DEFINE m == [module EXCEPT !.synced = TRUE, !.latest = mlocal.latest]
    <2>1. CASE module.exists
      <3>1. mlocal' = [mlocal EXCEPT !.module = m] /\ mpc' # "create" /\ refs' = mlocal.refs
        BY <1>7, <2>1 DEF ModuleStatus
      <3> HIDE DEF m
      <3>2. mlocal'.refs = mlocal.refs
        BY ONLY <1>0, <3>1 DEF ModuleLocal
      <3>3. QED
        BY <3>1, <3>2
    <2>2. CASE ~module.exists
      BY <1>7, <1>r, <2>2 DEF ModuleStatus
    <2>3. QED
      BY <2>1, <2>2
  <1>8. CASE ListOwned
    <2> DEFINE doomed == {v \in Version : obj[v].exists} \ Listed(mlocal.module)
    <2>1. refs' = refs /\ mpc = "list"
      BY <1>8 DEF ListOwned, vars
    <2>2. CASE MReturn(FALSE)
      BY <1>r, <2>1, <2>2
    <2>3. CASE ~MReturn(FALSE)
      <3>1. mlocal' = [mlocal EXCEPT !.doomed = doomed] /\ mpc' # "create"
        BY <1>8, <2>3 DEF ListOwned
      <3> HIDE DEF doomed
      <3>2. mlocal'.refs = mlocal.refs
        BY ONLY <1>0, <3>1 DEF ModuleLocal
      <3>3. QED
        BY <2>1, <3>1, <3>2
    <2>4. QED
      BY <2>2, <2>3
  <1>9. CASE ModuleCallFails \/ ModuleCrash \/ ModuleRestart
    BY <1>9, <1>n, <1>r DEF ModuleCallFails, ModuleCrash, ModuleRestart, vars
  <1>10. CASE WriteModule \/ ForceModule \/ RemoveModule
    BY <1>0, <1>10, EditFacts
  <1>11. QED
    BY <1>1, <1>2, <1>3, <1>4, <1>5, <1>6, <1>7, <1>8, <1>9, <1>10 DEF Aside


\* An object keeps its name or disappears, and is made anew with a name.
KeepsName(n, o) == /\ PlainSpec(o) => PlainSpec(n)
                   /\ n.fileName \in {o.fileName, Nil}
                   /\ n.exists => o.exists /\ n.fileName = o.fileName

Renamed(n, f) == PlainSpec(n) /\ n.fileName = f

\* The writes of the Module controller give a Version the name in the map, and
\* put the name of a Version into it.
LEMMA WriteNames ==
  ASSUME ModuleBase, \/ CreateOwned \/ UpdateOwned \/ DeleteOwned
                     \/ \E v \in Version : GarbageCollect(v)
  PROVE  /\ refs' = refs
         /\ mpc' = "create" => mpc = "create" /\ mlocal' = mlocal
         /\ \A w \in Version : mlocal'.refs[w] \in {mlocal.refs[w], obj[w].fileName, Nil}
         /\ \A w \in Version :
               \/ KeepsName(obj'[w], obj[w])
               \/ mpc = "create" /\ w = Head(mlocal.todo) /\ Renamed(obj'[w], mlocal.refs[w])
  <1>0. mlocal \in ModuleLocal /\ ModuleTyped /\ ModuleWorker /\ obj \in [Version -> Object]
    BY DEF ModuleBase, ModuleTyped, TypeOK, Typed
  <1>m. mlocal.refs \in [Version -> FileOrNil]
    BY <1>0, MLocalFields
  <1>s. \A w \in Version : KeepsName(obj[w], obj[w])
    BY DEF KeepsName
  <1>r. ASSUME NEW b, MReturn(b)
        PROVE  mpc' # "create" /\ \A w \in Version : mlocal'.refs[w] = Nil
    BY <1>r DEF MReturn, MIdle, NoRefs
  <1>d. ASSUME NEW v \in Version, DeleteCall(v), NEW w \in Version
        PROVE  KeepsName(obj'[w], obj[w])
    <2> DEFINE n == Deleted(obj[v])
    <2>1. KeepsName(n, obj[v])
      BY <1>0, <1>d, DeletedFacts, AbsentObject DEF DeleteCall, KeepsName, PlainSpec
    <2>2. obj' = [obj EXCEPT ![v] = n]
      BY <1>d DEF DeleteCall
    <2> HIDE DEF n
    <2>3. obj'[w] = IF w = v THEN n ELSE obj[w]
      BY <1>0, <2>2
    <2>4. QED
      BY <1>s, <2>1, <2>3
  <1>1. CASE CreateOwned
    <2> DEFINE v == Head(mlocal.todo)
               n == NewVersion(mlocal.refs[v], "given")
    <2>1. /\ mpc = "create" /\ mpc' = Round(Tail(mlocal.todo)) /\ refs' = refs
          /\ mlocal' = [mlocal EXCEPT !.todo = Tail(mlocal.todo)]
      BY <1>1 DEF CreateOwned
    <2>2. mlocal'.refs = mlocal.refs
      BY ONLY <1>0, <2>1 DEF ModuleLocal
    <2>3. v \in Version /\ (obj' = obj \/ obj' = [obj EXCEPT ![v] = n])
      BY <1>1, Creation
    <2>4. Renamed(n, mlocal.refs[v])
      <3>1. mlocal.refs[v] \in FileOrNil
        BY <1>m, <2>3
      <3>2. QED
        BY <3>1, NewVersionFacts DEF Renamed, PlainSpec
    <2> HIDE DEF n, v
    <2>5. \A w \in Version : obj'[w] = obj[w] \/ (w = v /\ obj'[w] = n)
      BY <1>0, <2>3
    <2>6. \A w \in Version :
               \/ KeepsName(obj'[w], obj[w])
               \/ w = v /\ Renamed(obj'[w], mlocal.refs[w])
      BY <1>s, <2>4, <2>5
    <2>7. QED
      BY <2>1, <2>2, <2>6, RoundFacts DEF v
  <1>2. CASE UpdateOwned
    <2> DEFINE v == Head(mlocal.todo)
               o == mlocal.version
               n == Rewritten(o)
    <2>1. v \in Version /\ o \in Object /\ refs' = refs
      BY <1>2, Replacement
    <2>2. CASE MReturn(TRUE) /\ UNCHANGED <<obj, queue>>
      BY <1>r, <1>s, <2>1, <2>2
    <2>3. CASE /\ obj[v] = o /\ obj' = [obj EXCEPT ![v] = n]
               /\ mlocal' = [mlocal EXCEPT !.refs[v] = o.fileName, !.todo = Tail(mlocal.todo)]
               /\ mpc' = Round(Tail(mlocal.todo)) /\ mqueue' = mqueue
      <3>1. KeepsName(n, o)
        BY <2>1, RewrittenFacts, AbsentObject DEF KeepsName, PlainSpec
      <3> HIDE DEF n, v, o
      <3>2. mlocal'.refs = [mlocal.refs EXCEPT ![v] = o.fileName]
        BY ONLY <1>0, <2>3 DEF ModuleLocal
      <3>3. \A w \in Version : mlocal'.refs[w] = IF w = v THEN o.fileName ELSE mlocal.refs[w]
        BY <1>m, <3>2
      <3>4. \A w \in Version : obj'[w] = IF w = v THEN n ELSE obj[w]
        BY <1>0, <2>3
      <3>5. \A w \in Version : KeepsName(obj'[w], obj[w])
        BY <1>s, <2>3, <3>1, <3>4
      <3>6. QED
        BY <2>1, <2>3, <3>3, <3>5, RoundFacts
    <2>4. QED
      BY <1>2, <2>2, <2>3, Replacement
  <1>3. CASE DeleteOwned
    <2>1. mpc = "delete" /\ refs' = refs
      BY <1>3, Removal
    <2>2. CASE MReturn(TRUE) /\ UNCHANGED <<obj, queue>>
      BY <1>r, <1>s, <2>1, <2>2
    <2>3. ASSUME NEW v \in mlocal.doomed, v \in Version, DeleteCall(v),
                 \/ mlocal.doomed = {v} /\ MReturn(FALSE)
                 \/ /\ mlocal' = [mlocal EXCEPT !.doomed = mlocal.doomed \ {v}]
                    /\ UNCHANGED <<mpc, mqueue>>
          PROVE  /\ mpc' # "create" /\ \A w \in Version : mlocal'.refs[w] \in {mlocal.refs[w], Nil}
                 /\ \A w \in Version : KeepsName(obj'[w], obj[w])
      <3>1. CASE MReturn(FALSE)
        BY <1>d, <1>r, <2>3, <3>1
      <3>2. CASE /\ mlocal' = [mlocal EXCEPT !.doomed = mlocal.doomed \ {v}]
                 /\ UNCHANGED <<mpc, mqueue>>
        <4>1. mlocal'.refs = mlocal.refs
          BY ONLY <1>0, <3>2 DEF ModuleLocal
        <4>2. QED
          BY <1>d, <2>1, <2>3, <3>2, <4>1
      <3>3. QED
        BY <2>3, <3>1, <3>2
    <2>4. QED
      BY <1>3, <2>1, <2>2, <2>3, Removal
  <1>4. ASSUME NEW v \in Version, GarbageCollect(v)
        PROVE  /\ refs' = refs /\ mlocal' = mlocal /\ mpc' = mpc
               /\ \A w \in Version : KeepsName(obj'[w], obj[w])
    BY <1>d, <1>4, Collection DEF DeleteCall, mvars
  <1>5. QED
    BY <1>1, <1>2, <1>3, <1>4


\* What OwnNames says of the loop.
HeadNamed == mpc = "create" => mlocal.refs[Head(mlocal.todo)] # Nil

\* OwnNames and Plain, Version by Version.
LEMMA NamesByKey ==
  OwnNames /\ Plain <=> /\ \A v, w \in Version : v # w => AllNames(v) \cap AllNames(w) = {}
                        /\ \A v \in Version : KeyPlain(v) /\ KeyNamed(v)
                        /\ HeadNamed
  BY DEF OwnNames, Plain, KeyPlain, KeyNamed, HeadNamed

\* A new name goes to one Version; every other step of the Module controller
\* leaves each Version with names it had.
LEMMA ModuleNamesStep ==
  ASSUME ModuleBase, OwnNames, Plain, ModuleNext
  PROVE  OwnNames' /\ Plain'
  <1>0. /\ mlocal \in ModuleLocal /\ ModuleTyped /\ ModuleWorker /\ Typed /\ Gone
        /\ mlocal.refs \in [Version -> FileOrNil]
    BY MLocalFields DEF ModuleBase, ModuleTyped, TypeOK
  <1>k. /\ \A v, w \in Version : v # w => AllNames(v) \cap AllNames(w) = {}
        /\ \A v \in Version : KeyPlain(v) /\ KeyNamed(v)
        /\ HeadNamed
    BY NamesByKey
  <1>1. CASE WriteRefs /\ module.exists
    <2> DEFINE v == Head(mlocal.todo)
               m == [module EXCEPT !.synced = TRUE]
    <2>1. PICK f \in NewNames :
             LET r == [mlocal.refs EXCEPT ![v] = f]
             IN  /\ f \in File /\ refs' = r
                 /\ mlocal' = [mlocal EXCEPT !.refs = r, !.module = m]
                 /\ mpc' = "create"
                 /\ UNCHANGED <<obj, queue, others>>
      BY <1>0, <1>1, WriteRefsFacts DEF ModuleBase
    <2> DEFINE r == [mlocal.refs EXCEPT ![v] = f]
    <2>2. UNCHANGED <<obj, pc, local>>
      BY <2>1 DEF others
    <2>v. v \in Version
      BY <1>0, <1>1, LoopHead DEF WriteRefs, Loop
    <2> HIDE DEF m
    <2>3. mlocal'.refs = r /\ mlocal'.todo = mlocal.todo
      <3>1. mlocal' = [mlocal EXCEPT !.refs = r, !.module = m]
        BY <2>1
      <3> HIDE DEF r
      <3>2. QED
        BY ONLY <1>0, <3>1 DEF ModuleLocal
    <2>4. \A w \in Version : r[w] = IF w = v THEN f ELSE mlocal.refs[w]
      BY <1>0
    <2>5. \A w \in Version : AllNames(w)' \subseteq AllNames(w) \cup (IF w = v THEN {f} ELSE {})
      BY <2>1, <2>2, <2>3, <2>4 DEF AllNames
    <2>6. \A w \in Version : f \notin AllNames(w)
      BY <2>1 DEF NewNames, Unused, AllNames
    <2>7. HeadNamed'
      BY <2>1, <2>v, <2>3, <2>4 DEF HeadNamed
    <2>8. \A w \in Version : KeyPlain(w)' /\ KeyNamed(w)'
      BY <1>k, <2>2 DEF KeyPlain, KeyNamed
    <2> HIDE DEF v, r
    <2>9. \A u, w \in Version : u # w => AllNames(u)' \cap AllNames(w)' = {}
      BY <1>k, <2>5, <2>6
    <2>10. QED
      BY <2>7, <2>8, <2>9 DEF OwnNames, Plain, KeyPlain, KeyNamed, HeadNamed
  <1>2. ASSUME \A w \in Version : AllNames(w)' \subseteq AllNames(w),
               \A w \in Version : KeyPlain(w)' /\ KeyNamed(w)', HeadNamed'
        PROVE  OwnNames' /\ Plain'
    <2>1. \A u, w \in Version : u # w => AllNames(u)' \cap AllNames(w)' = {}
      BY <1>k, <1>2
    <2>2. QED
      BY <1>2, <2>1 DEF OwnNames, Plain, KeyPlain, KeyNamed, HeadNamed
  <1>3. CASE Aside /\ ~(WriteRefs /\ module.exists)
    <2>1. /\ mlocal'.refs \in {mlocal.refs, NoRefs}
          /\ refs' \in {refs, mlocal.refs, NoRefs}
          /\ mpc' = "create" => mpc = "create" /\ mlocal' = mlocal
      BY <1>3, AsideNames
    <2>2. UNCHANGED <<obj, pc, local>>
      BY <1>3, AsideFrame DEF others
    <2>3. \A w \in Version : AllNames(w)' \subseteq AllNames(w)
      BY <2>1, <2>2 DEF AllNames, NoRefs
    <2>4. \A w \in Version : KeyPlain(w)' /\ KeyNamed(w)'
      BY <1>k, <2>2 DEF KeyPlain, KeyNamed
    <2>5. HeadNamed'
      BY <1>k, <2>1 DEF HeadNamed
    <2>6. QED
      BY <1>2, <2>3, <2>4, <2>5
  <1>4. CASE CreateOwned \/ UpdateOwned \/ DeleteOwned \/ \E v \in Version : GarbageCollect(v)
    <2>1. /\ refs' = refs
          /\ mpc' = "create" => mpc = "create" /\ mlocal' = mlocal
          /\ \A w \in Version : mlocal'.refs[w] \in {mlocal.refs[w], obj[w].fileName, Nil}
          /\ \A w \in Version :
               \/ KeepsName(obj'[w], obj[w])
               \/ mpc = "create" /\ w = Head(mlocal.todo) /\ Renamed(obj'[w], mlocal.refs[w])
      BY <1>4, WriteNames
    <2>2. UNCHANGED <<pc, local>>
      BY <1>4, Creation, Replacement, Removal, Collection DEF DeleteCall, others
    <2>3. \A w \in Version : AllNames(w)' \subseteq AllNames(w)
      BY <2>1, <2>2 DEF AllNames, KeepsName, Renamed
    <2>4. ASSUME NEW w \in Version PROVE KeyPlain(w)' /\ KeyNamed(w)'
      <3>1. CASE KeepsName(obj'[w], obj[w])
        BY <1>k, <2>2, <3>1 DEF KeepsName, KeyPlain, KeyNamed
      <3>2. CASE mpc = "create" /\ w = Head(mlocal.todo) /\ Renamed(obj'[w], mlocal.refs[w])
        BY <1>k, <2>2, <3>2 DEF Renamed, KeyPlain, KeyNamed, HeadNamed
      <3>3. QED
        BY <2>1, <3>1, <3>2
    <2>5. HeadNamed'
      BY <1>k, <2>1 DEF HeadNamed
    <2>6. QED
      BY <1>2, <2>3, <2>4, <2>5
  <1>5. QED
    BY <1>1, <1>3, <1>4 DEF ModuleNext, ModuleStep, Aside


\* A Version that is served, or is about to be, stays so when its object keeps
\* what it serves.
LEMMA ServedKept ==
  ASSUME NEW w \in Version, ServedOrQueued(w), UNCHANGED others, queue \subseteq queue',
         obj'[w].exists = obj[w].exists, obj'[w].fileName = obj[w].fileName,
         obj'[w].checksum = obj[w].checksum, obj'[w].synced = obj[w].synced
  PROVE  ServedOrQueued(w)'
  BY DEF ServedOrQueued, others, world

\* A Version nobody works on is about to be served when it is queued, and when
\* it does not exist.
LEMMA ServedAnew ==
  ASSUME NEW w \in Version, pc'[w] = "idle", ~obj'[w].synced,
         ~obj'[w].exists \/ ~up' \/ w \in queue'
  PROVE  ServedOrQueued(w)'
  BY DEF ServedOrQueued

\* The writes of the Module controller leave what is listed served.
LEMMA ModuleServed ==
  ASSUME ModuleBase, Follows, module.exists, NEW w \in Listed(module), ServedOrQueued(w),
         Aside \/ CreateOwned \/ UpdateOwned \/ DeleteOwned
  PROVE  ServedOrQueued(w)'
  <1>0. ModuleTyped /\ obj \in [Version -> Object] /\ mlocal \in ModuleLocal
    BY DEF ModuleBase, ModuleTyped, TypeOK, Typed
  <1>w. w \in Version
    BY <1>0, ListedVersions DEF ModuleTyped
  <1>k. ASSUME UNCHANGED <<obj, queue, others>> PROVE ServedOrQueued(w)'
    BY <1>w, <1>k, ServedKept
  <1>1. CASE Aside
    BY <1>k, <1>1, AsideFrame
  <1>2. CASE CreateOwned
    <2> DEFINE v == Head(mlocal.todo)
               n == NewVersion(mlocal.refs[v], "given")
    <2>1. v \in Version /\ UNCHANGED others
      BY <1>2, Creation
    <2>2. CASE obj' = obj /\ queue' = queue
      BY <1>k, <2>1, <2>2
    <2>3. CASE /\ ~obj[v].exists /\ obj' = [obj EXCEPT ![v] = n]
               /\ queue' = IF up THEN queue \cup {v} ELSE queue
      <3>1. ~n.synced
        BY DEF NewVersion, Absent
      <3> HIDE DEF n, v
      <3>2. obj'[w] = IF w = v THEN n ELSE obj[w]
        BY <1>0, <1>w, <2>3
      <3>3. CASE w = v
        <4>1. pc'[w] = "idle"
          BY <2>1, <2>3, <3>3 DEF ServedOrQueued, others
        <4>2. QED
          BY <1>w, <2>1, <2>3, <3>1, <3>2, <3>3, <4>1, ServedAnew DEF others
      <3>4. CASE w # v
        BY <1>w, <2>1, <2>3, <3>2, <3>4, ServedKept
      <3>5. QED
        BY <3>3, <3>4
    <2>4. QED
      BY <1>2, <2>2, <2>3, Creation
  <1>3. CASE UpdateOwned
    <2> DEFINE v == Head(mlocal.todo)
               o == mlocal.version
               n == Rewritten(o)
    <2>1. v \in Version /\ o \in Object /\ UNCHANGED others
      BY <1>3, Replacement
    <2>2. CASE UNCHANGED <<obj, queue>>
      BY <1>k, <2>1, <2>2
    <2>3. CASE /\ obj[v] = o /\ obj' = [obj EXCEPT ![v] = n] /\ queue \subseteq queue'
      <3>1. ~o.deleting => /\ n.exists = o.exists /\ n.fileName = o.fileName
                           /\ n.checksum = o.checksum /\ n.synced = o.synced
        BY <2>1, RewrittenFacts
      <3> HIDE DEF n, v, o
      <3>2. obj'[w] = IF w = v THEN n ELSE obj[w]
        BY <1>0, <1>w, <2>3
      <3>3. ~obj[w].deleting
        BY DEF Follows
      <3>4. QED
        BY <1>w, <2>1, <2>3, <3>1, <3>2, <3>3, ServedKept
    <2>4. QED
      BY <1>3, <2>2, <2>3, Replacement
  <1>4. CASE DeleteOwned
    <2>1. CASE UNCHANGED <<obj, queue>>
      <3>1. UNCHANGED others
        BY <1>4, Removal
      <3>2. QED
        BY <1>k, <2>1, <3>1
    <2>2. ASSUME NEW v \in mlocal.doomed, DeleteCall(v) PROVE ServedOrQueued(w)'
      <3>1. v # w
        BY DEF Follows
      <3>2. obj'[w] = obj[w] /\ queue \subseteq queue' /\ UNCHANGED others
        BY <1>0, <1>w, <2>2, <3>1 DEF DeleteCall
      <3>3. QED
        BY <1>w, <3>2, ServedKept
    <2>3. QED
      BY <1>4, <2>1, <2>2, Removal
  <1>5. QED
    BY <1>1, <1>2, <1>3, <1>4

\* A patient operator adds Versions that nobody works on and that do not exist.
LEMMA EditServed ==
  ASSUME PatientOperator, ModuleBase, ConvergeInv, Pristine, WriteModule, NEW w \in Version,
         VersionsConverge, module.exists => \A v \in Listed(module) : ServedOrQueued(v)
  PROVE  ServedOrQueued(w)'
  <1>0. Settled /\ ModuleTyped /\ Gone /\ mbudget["edit"] \in Nat
    BY DEF WriteModule, ModuleBase, ModuleTyped, ModuleEvent, TypeOK
  <1>1. UNCHANGED <<obj, queue, others>>
    BY <1>0, EditFacts
  <1>2. CASE module.exists /\ w \in Listed(module)
    BY <1>1, <1>2, ServedKept
  <1>3. CASE ~(module.exists /\ w \in Listed(module))
    <2>1. ~obj[w].exists
      BY <1>0, <1>3 DEF VersionsConverge, WriteModule, Pristine
    <2>2. ~obj[w].synced
      BY <1>0, <2>1, AbsentObject DEF Gone
    <2>3. pc[w] = "idle"
      BY <1>0 DEF Settled, Busy
    <2>4. QED
      BY <1>1, <2>1, <2>2, <2>3, ServedAnew DEF others
  <1>4. QED
    BY <1>2, <1>3


\* Only an operator lists what was not listed before.
LEMMA ListShrinks ==
  ASSUME ModuleBase, Follows, ModuleNext, ~WriteModule, module'.exists
  PROVE  Listed(module') \subseteq Listed(module)
  <1>0. ModuleTyped /\ ModuleWorker /\ module \in ModuleRecord /\ mlocal \in ModuleLocal
    BY DEF ModuleBase, ModuleTyped
  <1>k. ASSUME module'.versions = module.versions PROVE Listed(module') \subseteq Listed(module)
    BY <1>k DEF Listed
  <1>1. CASE Trim
    <2> DEFINE s == mlocal.module.versions
               t == VersionsToKeep(s)
    <2>1. module' = [module EXCEPT !.versions = t] /\ mpc = "trim"
      BY <1>1, ModuleStays DEF Trim
    <2>2. s = module.versions /\ s \in Seq(Version) /\ HistoryLimit < Len(s)
      BY <1>0, <2>1, ModuleFields DEF Follows, ModuleWorker
    <2>3. {t[i] : i \in DOMAIN t} \subseteq {s[i] : i \in DOMAIN s}
      BY <2>2, KeptListed
    <2> HIDE DEF t
    <2>4. module'.versions = t
      BY <1>0, <2>1 DEF ModuleRecord
    <2>5. QED
      BY <2>2, <2>3, <2>4 DEF Listed
  <1>2. CASE WriteRefs \/ ModuleResetForceSync \/ ModuleStatus \/ ForceModule
    <2>1. module'.versions = module.versions
      BY <1>0, <1>2 DEF WriteRefs, ModuleResetForceSync, ModuleStatus, ForceModule, ModuleRecord
    <2>2. QED
      BY <1>k, <2>1
  <1>3. CASE ModuleReconcile \/ GetVersion \/ CreateOwned \/ UpdateOwned \/ Latest \/ ListOwned
             \/ DeleteOwned \/ ModuleCallFails \/ ModuleCrash \/ ModuleRestart
             \/ \E v \in Version : GarbageCollect(v)
    <2>1. module' = module
      BY <1>3 DEF ModuleReconcile, GetVersion, CreateOwned, UpdateOwned, Latest, ListOwned,
                  DeleteOwned, ModuleCallFails, ModuleCrash, ModuleRestart, GarbageCollect, mvars
    <2>2. QED
      BY <1>k, <2>1
  <1>4. QED
    BY <1>1, <1>2, <1>3, ModuleStays DEF ModuleNext, ModuleStep

LEMMA ServedInvStep ==
  ASSUME PatientOperator, ~ScanningEnabled, ModuleBase, VersionsConverge, ConvergeInv, ServedInv,
         [Composed]_allVars
  PROVE  ServedInv'
  <1>0. /\ Pristine /\ OwnNames /\ Plain
        /\ module.exists => Follows /\ \A v \in Listed(module) : ServedOrQueued(v)
    BY FollowsList DEF ServedInv, ConvergeInv
  <1>k. /\ \A v, w \in Version : v # w => AllNames(v) \cap AllNames(w) = {}
        /\ \A v \in Version : KeyPlain(v) /\ KeyNamed(v)
        /\ HeadNamed
    BY <1>0, NamesByKey
  <1>l. Listed(module) \subseteq Version
    BY ListedVersions DEF ModuleBase, ModuleTyped
  <1>1. CASE UNCHANGED allVars
    <2>1. UNCHANGED <<obj, refs, queue, storage, upstream, up, pc, local,
                      module, mup, mqueue, mpc, mlocal, mbudget>>
      BY <1>1 DEF allVars, vars, api, world, mvars
    <2>2. Pristine' /\ OwnNames' /\ Plain'
      BY <1>0, <2>1 DEF Pristine, OwnNames, AllNames, Plain
    <2>3. \A v \in Version : ServedOrQueued(v) => ServedOrQueued(v)'
      BY <2>1 DEF ServedOrQueued
    <2>4. QED
      BY <1>0, <1>l, <2>1, <2>2, <2>3 DEF ServedInv
  <1>2. CASE VersionSide
    <2>1. UNCHANGED mvars
      BY <1>2 DEF VersionSide
    <2>2. \A w \in Version : KeyPlain(w)' /\ KeyNamed(w)' /\ AllNames(w)' \subseteq AllNames(w)
      BY <1>2, <1>k, VersionSidePlain
    <2>3. \A v, w \in Version : v # w => AllNames(v)' \cap AllNames(w)' = {}
      BY <1>k, <2>2
    <2>4. HeadNamed'
      BY <1>k, <2>1 DEF HeadNamed, mvars
    <2>5. OwnNames' /\ Plain'
      BY <2>2, <2>3, <2>4 DEF OwnNames, Plain, KeyPlain, KeyNamed, HeadNamed
    <2>6. Pristine'
      BY <1>0, <1>2, <2>1, VersionSideObjects DEF Pristine, mvars
    <2>7. ASSUME module.exists, NEW w \in Listed(module) PROVE ServedOrQueued(w)'
      <3>1. w \in Version /\ ~obj[w].deleting /\ pc[w] \notin Deletion /\ ServedOrQueued(w)
        BY <1>0, <1>l, <2>7 DEF Follows
      <3>2. QED
        BY <1>0, <1>2, <1>k, <3>1, VersionSideServed
    <2>8. module' = module
      BY <2>1 DEF mvars
    <2>9. QED
      BY <2>5, <2>6, <2>7, <2>8 DEF ServedInv
  <1>3. CASE ModuleNext
    <2>1. Pristine' /\ OwnNames' /\ Plain'
      BY <1>0, <1>3, PristineStep, ModuleNamesStep
    <2>2. ASSUME module'.exists, NEW w \in Listed(module') PROVE ServedOrQueued(w)'
      <3>1. CASE WriteModule
        <4>1. module' \in ModuleRecord
          BY <3>1, EditFacts DEF ModuleBase
        <4>2. w \in Version
          BY <2>2, <4>1, ListedVersions
        <4>3. QED
          BY <1>0, <3>1, <4>2, EditServed
      <3>2. CASE ~WriteModule
        <4>1. module.exists /\ ~RemoveModule
          BY <1>3, <2>2, <3>2, ModuleStays
        <4>2. w \in Listed(module)
          BY <1>0, <1>3, <2>2, <3>2, <4>1, ListShrinks
        <4>3. Aside \/ CreateOwned \/ UpdateOwned \/ DeleteOwned
          BY <1>3, <4>1 DEF ModuleNext, ModuleStep, Aside, GarbageCollect
        <4>4. QED
          BY <1>0, <4>1, <4>2, <4>3, ModuleServed
      <3>3. QED
        BY <3>1, <3>2
    <2>3. QED
      BY <2>1, <2>2 DEF ServedInv
  <1>4. QED
    BY <1>1, <1>2, <1>3 DEF Composed, VersionSide

\* SettledIsServed: without scans, under an operator who edits the list only
\* while both controllers rest, every rest leaves every listed Version synced,
\* with a name, and its archive stored under that name, whatever failed,
\* crashed, was tampered with or deleted on the way.
THEOREM SettledServed ==
  ASSUME PatientOperator, ~ScanningEnabled
  PROVE  ModuleSpec => []SettledIsServed
  <1>1. ModuleInit => ServedInv
    <2> SUFFICES ASSUME ModuleInit PROVE ServedInv
      OBVIOUS
    <2>1. /\ \A v \in Version : obj[v] = Absent /\ pc[v] = "idle" /\ local[v] = Idle /\ refs[v] = Nil
          /\ ~module.exists /\ mpc = "idle" /\ mlocal = MIdle /\ mbudget = ModuleBudget
      BY NothingTyped DEF ModuleInit, Init
    <2>2. \A v \in Version : AllNames(v) = {}
      BY <2>1, IdleFields, AbsentObject DEF AllNames, MIdle, NoRefs
    <2>3. \A v \in Version : KeyPlain(v) /\ KeyNamed(v)
      BY <2>1, IdleFields, AbsentObject DEF KeyPlain, KeyNamed, PlainSpec, PlainSteps, Naming, Recorded,
                                                 Labels, CallPoints, Unnamed
    <2>4. OwnNames /\ Plain
      BY <2>1, <2>2, <2>3, NamesByKey DEF HeadNamed
    <2>5. Pristine
      BY <2>1, AbsentObject, ModuleConstants DEF Pristine, ModuleEvent
    <2>6. QED
      BY <2>1, <2>4, <2>5 DEF ServedInv
  <1>2. ModuleBase /\ VersionsConverge /\ ConvergeInv /\ ServedInv /\ [Composed]_allVars => ServedInv'
    BY ServedInvStep
  <1>3. ModuleBase /\ VersionsConverge /\ ServedInv => SettledIsServed
    <2> SUFFICES ASSUME ModuleBase, VersionsConverge, ServedInv, Settled, module.exists,
                        NEW v \in Listed(module)
                 PROVE  /\ obj[v].synced /\ obj[v].fileName # Nil
                        /\ storage[obj[v].fileName] = obj[v].checksum
      BY DEF SettledIsServed
    <2>1. v \in Version
      BY ListedVersions DEF ModuleBase, ModuleTyped
    <2>2. obj[v].exists
      BY <2>1 DEF VersionsConverge
    <2>3. KeyNamed(v) /\ ServedOrQueued(v)
      BY <2>1, NamesByKey DEF ServedInv
    <2>4. QED
      BY <2>1, <2>2, <2>3 DEF Settled, Busy, ServedOrQueued, KeyNamed
  <1>4. QED
    BY <1>1, <1>2, <1>3, BaseInvariance, ConvergeInvariance, Convergence, PTL DEF ModuleSpec

=============================================================================
