---------------------------- MODULE SupplyProofs ----------------------------
(***************************************************************************)
(* The Depot controller and the Provider controller, for every Depot, list *)
(* of releases and interleaving: the proofs of DepotApplied and            *)
(* NothingStale, and, for a patient operator, of VersionsMatchProvider and *)
(* NewestKept.                                                             *)
(***************************************************************************)
EXTENDS ProviderReconciler, SequenceTheorems, FiniteSetTheorems, TLAPS

-----------------------------------------------------------------------------
\* Configs, resources and Versions

LEMMA EffectiveOK ==
  ASSUME NEW c \in DepotConfig, NEW global \in [storage : Setting, format : Setting]
  PROVE  Effective(c, global) \in DepotConfig
  BY DEF Effective, DepotConfig

LEMMA ConfigsOK ==
  ASSUME NEW spec \in DepotSpec
  PROVE  Configs(spec) \in Seq(DepotConfig)
  <1> DEFINE m == Len(spec.modules)
             p == Len(spec.providers)
             at(i) == IF i <= m THEN spec.modules[i] ELSE spec.providers[i - m]
  <1>1. /\ spec.modules \in Seq(DepotConfig) /\ spec.providers \in Seq(DepotConfig)
        /\ spec.global \in [storage : Setting, format : Setting]
    BY DEF DepotSpec
  <1>2. /\ m \in Nat /\ p \in Nat
        /\ spec.modules \in [1..m -> DepotConfig] /\ spec.providers \in [1..p -> DepotConfig]
    BY <1>1, LenProperties
  <1> HIDE DEF m, p
  <1>3. ASSUME NEW i \in 1..(m + p) PROVE at(i) \in DepotConfig
    <2>1. CASE i <= m
      <3>1. i \in 1..m
        BY <1>2, <2>1
      <3>2. QED
        BY <1>2, <2>1, <3>1
    <2>2. CASE ~(i <= m)
      <3>1. i - m \in 1..p
        BY <1>2, <2>2
      <3>2. QED
        BY <1>2, <2>2, <3>1
    <2>3. QED
      BY <2>1, <2>2
  <1> HIDE DEF at
  <1>4. \A i \in 1..(m + p) : Effective(at(i), spec.global) \in DepotConfig
    BY <1>1, <1>3, EffectiveOK
  <1>5. Configs(spec) = [i \in 1..(m + p) |-> Effective(at(i), spec.global)]
    BY DEF Configs, m, p, at
  <1>6. Configs(spec) \in [1..(m + p) -> DepotConfig] /\ m + p \in Nat
    BY <1>2, <1>4, <1>5
  <1>7. QED
    BY <1>6, SeqDef

LEMMA ConfigAt ==
  ASSUME NEW s \in Seq(DepotConfig), NEW i \in 1..Len(s)
  PROVE  s[i] \in DepotConfig /\ s[i].name \in Resource
  <1>1. s[i] \in DepotConfig
    OBVIOUS
  <1>2. QED
    BY <1>1 DEF DepotConfig

LEMMA NoVersionOK == NoVersion \in OwnedVersion /\ ~NoVersion.exists
  BY DEF NoVersion, OwnedVersion

LEMMA RewrittenOK ==
  ASSUME NEW o \in OwnedVersion, NEW c \in DepotConfig
  PROVE  Rewritten(o, c) \in OwnedVersion
  BY NoVersionOK DEF Rewritten, OwnedVersion

LEMMA DeletedOK ==
  ASSUME NEW o \in OwnedVersion
  PROVE  /\ DeletedVersion(o) \in OwnedVersion
         /\ ~DeletedVersion(o).exists \/ DeletedVersion(o).deleting
  BY NoVersionOK DEF DeletedVersion, OwnedVersion

LEMMA NoResourceOK == \A n : ResourceOK(n, NoResource)
  BY DEF NoResource, ResourceOK

LEMMA IdleOK ==
  /\ DIdle \in DepotLocal /\ DIdle.todo = <<>> /\ DIdle.managed = <<>>
  /\ PIdle.keep = {} /\ PIdle.object \in OwnedVersion /\ PIdle.todo = {} /\ PIdle.doomed = {}
  /\ PIdle.desired = {} /\ PIdle.name = Unset
  BY NoVersionOK DEF DIdle, PIdle, DepotLocal

\* A change that is no event changes nothing a Provider asks for.
LEMMA DesiredKept ==
  ASSUME NEW n, NEW old, NEW new, ~ProviderChanged(old, new)
  PROVE  Desired(n, old) = Desired(n, new) /\ old.exists = new.exists
  BY DEF ProviderChanged, Desired

-----------------------------------------------------------------------------
\* What a step leaves alone

\* The Depot controller is not concerned by what the Provider controller writes.
LEMMA DepotKept ==
  ASSUME SupplyInv, UNCHANGED <<depot, dqueue, dpc, dlocal>>,
         \A n \in Resource : resource'[n].exists = resource[n].exists
                            /\ resource'[n].config = resource[n].config
  PROVE  DepotProgress' /\ DepotApplied'
  <1> DEFINE c == Configs(depot.spec)
  <1>1. c \in Seq(DepotConfig) /\ Configs(depot.spec)' = c
    BY ConfigsOK DEF SupplyInv, SupplyTypeOK
  <1>2. ASSUME NEW k \in Nat, k <= Len(c), Carried(c, k) PROVE Carried(c, k)'
    <2> HIDE DEF c
    <2>1. \A i \in 1..k : c[i].name \in Resource
      BY <1>1, <1>2, ConfigAt
    <2>2. c' = c
      BY <1>1 DEF c
    <2>3. QED
      BY <1>2, <2>1, <2>2 DEF Carried
  <1>3. DepotProgress'
    <2> SUFFICES ASSUME dpc # "idle", ~dqueue, depot.exists PROVE DepotProgress'
      BY DEF DepotProgress
    <2>1. Len(dlocal.managed) \in Nat /\ Len(dlocal.todo) \in Nat
      BY DEF SupplyInv, SupplyTypeOK, DepotLocal
    <2>2. Carried(c, Len(dlocal.managed))
      BY DEF SupplyInv, DepotProgress
    <2>0. Len(c) = Len(dlocal.managed) + Len(dlocal.todo)
      BY DEF SupplyInv, DepotProgress
    <2>3. Carried(c, Len(dlocal.managed))'
      <3> DEFINE k == Len(dlocal.managed)
      <3>1. k' = k
        OBVIOUS
      <3> HIDE DEF c
      <3>0. k \in Nat /\ k <= Len(c)
        <4>1. \A a, b \in Nat : a <= a + b
          OBVIOUS
        <4>2. QED
          BY <2>0, <2>1, <4>1
      <3> HIDE DEF k
      <3>2. PICK l \in Nat : l = k /\ l <= Len(c)
        BY <3>0
      <3>3. Carried(c, l)'
        BY <1>2, <2>2, <3>2 DEF k
      <3>4. QED
        BY <3>1, <3>2, <3>3 DEF Carried, k
    <2>4. QED
      BY <1>1, <2>3 DEF SupplyInv, DepotProgress
  <1>4. DepotApplied'
    <2>1. Len(c) \in Nat
      BY <1>1
    <2>2. QED
      BY <1>1, <1>2, <2>1 DEF SupplyInv, DepotApplied, DepotRests
  <1>5. QED
    BY <1>3, <1>4

\* The Provider controller learns of what the Depot controller writes.
LEMMA ProviderKept ==
  ASSUME SupplyInv, UNCHANGED <<version, ppc, plocal>>, pqueue \subseteq pqueue',
         \A n \in Provider : ProviderChanged(resource[n], resource'[n]) => n \in pqueue'
  PROVE  ProviderProgress' /\ NothingStale'
  <1>1. \A n \in Provider : n \notin pqueue' =>
           /\ Desired(n, resource'[n]) = Desired(n, resource[n])
           /\ resource'[n].exists = resource[n].exists
    BY DesiredKept
  <1>2. \A n : Lasting(n)' = Lasting(n)
    BY DEF Lasting
  <1>3. ProviderProgress'
    BY <1>1, <1>2 DEF SupplyInv, WorkersBusy, ProviderProgress
  <1>4. NothingStale'
    BY <1>1, <1>2 DEF SupplyInv, NothingStale
  <1>5. QED
    BY <1>3, <1>4

-----------------------------------------------------------------------------
\* Steps of the Depot controller

\* A Depot that waits for the worker owes nothing.
LEMMA Requeued ==
  ASSUME dqueue'
  PROVE  DepotProgress' /\ DepotApplied'
  BY DEF DepotProgress, DepotApplied, DepotRests

LEMMA DepotReconciling ==
  ASSUME SupplyInv, DepotReconcile, UNCHANGED <<version, ppc, plocal>>, pqueue' \subseteq Provider
  PROVE  SupplyTypeOK' /\ WorkersBusy' /\ DepotProgress' /\ DepotApplied'
  <1> DEFINE c == Configs(depot.spec)
  <1>1. c \in Seq(DepotConfig) /\ c' = c
    BY ConfigsOK DEF SupplyInv, SupplyTypeOK, DepotReconcile
  <1> HIDE DEF c
  <1>2. CASE depot.exists
    <2>1. /\ dlocal' = [DIdle EXCEPT !.todo = c] /\ dpc' = DRound(c) /\ ~dqueue'
          /\ UNCHANGED <<depot, resource, releases, dbudget>>
      BY <1>2 DEF DepotReconcile, c
    <2>2. dlocal' \in DepotLocal /\ dlocal'.todo = c /\ dlocal'.managed = <<>>
      BY <1>1, <2>1, IdleOK DEF DepotLocal
    <2>3. dpc' = (IF c = <<>> THEN "status" ELSE "list")
      BY <2>1 DEF DRound
    <2>4. SupplyTypeOK' /\ WorkersBusy'
      BY <2>1, <2>2, <2>3 DEF SupplyInv, SupplyTypeOK, WorkersBusy, DepotReconcile
    <2>5. DepotApplied'
      BY <2>3 DEF DepotApplied, DepotRests
    <2>6. DepotProgress'
      <3>1. Len(c) \in Nat /\ Len(dlocal'.managed) = 0 /\ Carried(c, 0)'
        BY <1>1, <2>2 DEF Carried
      <3>2. Carried(c, Len(dlocal.managed))'
        BY <3>1 DEF Carried
      <3>3. QED
        BY <1>1, <2>2, <3>1, <3>2 DEF DepotProgress, c
    <2>7. QED
      BY <2>4, <2>5, <2>6
  <1>3. CASE ~depot.exists
    <2>1. SupplyTypeOK' /\ WorkersBusy'
      BY <1>3 DEF SupplyInv, SupplyTypeOK, WorkersBusy, DepotReconcile
    <2>2. DepotProgress' /\ DepotApplied'
      BY <1>3 DEF DepotProgress, DepotApplied, DepotReconcile
    <2>3. QED
      BY <2>1, <2>2
  <1>4. QED
    BY <1>2, <1>3

\* The worker goes on with the same configs.
LEMMA DepotReading ==
  ASSUME SupplyInv, ListReleases \/ GetResource, UNCHANGED <<version, ppc, plocal>>,
         pqueue' \subseteq Provider
  PROVE  SupplyTypeOK' /\ WorkersBusy' /\ DepotProgress' /\ DepotApplied'
  <1>1. dlocal.todo # <<>> /\ dlocal.todo \in Seq(DepotConfig)
    BY DEF SupplyInv, SupplyTypeOK, DepotLocal, WorkersBusy, ListReleases, GetResource
  <1>2. Head(dlocal.todo) \in DepotConfig
    BY <1>1
  <1>0. dlocal \in DepotLocal
    BY DEF SupplyInv, SupplyTypeOK
  <1>3. /\ dlocal' \in DepotLocal
        /\ dlocal'.todo = dlocal.todo /\ dlocal'.managed = dlocal.managed
        /\ dpc' \in {"list", "get", "write"}
    <2>1. CASE ListReleases
      <3> DEFINE h == Head(dlocal.todo)
      <3>1. Matching(Page(h.name, dlocal.page), h) \subseteq Number
        <4>1. h.accepts \subseteq Nat \ {0}
          BY <1>2 DEF DepotConfig
        <4>2. h.name \in Resource
          BY <1>2 DEF DepotConfig
        <4>3. releases[h.name] \in Seq(Tag)
          BY <4>2 DEF SupplyInv, SupplyTypeOK
        <4>4. Page(h.name, dlocal.page) \subseteq Tag
          BY <4>3 DEF Page
        <4>5. QED
          BY <4>1, <4>4 DEF Matching, Number
      <3> DEFINE new    == Matching(Page(h.name, dlocal.page), h)
                 more   == h.name \in Module /\ (dlocal.page + 1) * PageSize < Len(releases[h.name])
                 all    == dlocal.matched \cup new
                 page   == IF more THEN dlocal.page + 1 ELSE 0
                 result == [dlocal EXCEPT !.matched = all, !.page = page]
      <3>2. dlocal' = result /\ dpc' = IF more THEN "list" ELSE "get"
        BY <2>1 DEF ListReleases
      <3>5. all \subseteq Number
        BY <1>0, <3>1 DEF DepotLocal
      <3> HIDE DEF new, more
      <3>6. page \in Nat
        BY <1>0 DEF DepotLocal
      <3> HIDE DEF all, page
      <3>3. /\ result \in DepotLocal
            /\ result.todo = dlocal.todo /\ result.managed = dlocal.managed
        BY <1>0, <3>5, <3>6 DEF DepotLocal
      <3>4. QED
        BY <3>2, <3>3
    <2>2. CASE GetResource
      <3>1. resource[Head(dlocal.todo).name].exists \in BOOLEAN
        BY <1>2 DEF SupplyInv, SupplyTypeOK, ResourceOK, DepotConfig
      <3>2. QED
        BY <1>0, <2>2, <3>1 DEF GetResource, DepotLocal
    <2>3. QED
      BY <2>1, <2>2
  <1>4. UNCHANGED <<depot, resource, releases, dqueue, dbudget>> /\ dpc # "idle"
    BY DEF ListReleases, GetResource
  <1>5. SupplyTypeOK' /\ WorkersBusy'
    BY <1>1, <1>3, <1>4 DEF SupplyInv, SupplyTypeOK, WorkersBusy
  <1>6. DepotProgress'
    BY <1>3, <1>4 DEF SupplyInv, DepotProgress, Carried
  <1>7. DepotApplied'
    BY <1>3 DEF DepotApplied, DepotRests
  <1>8. QED
    BY <1>5, <1>6, <1>7

\* The worker gives up.
LEMMA DepotReturning ==
  ASSUME SupplyInv, DReturn(TRUE), UNCHANGED <<depot, resource, releases, version, ppc, plocal>>,
         dbudget' \in [DepotEvent -> Nat], pqueue' \subseteq Provider
  PROVE  SupplyTypeOK' /\ WorkersBusy' /\ DepotProgress' /\ DepotApplied'
  <1>1. dqueue' /\ dpc' = "idle" /\ dlocal' \in DepotLocal
    BY IdleOK DEF DReturn, SupplyInv, SupplyTypeOK
  <1>2. dqueue' \in BOOLEAN
    BY DEF DReturn, SupplyInv, SupplyTypeOK
  <1>3. SupplyTypeOK' /\ WorkersBusy'
    BY <1>1, <1>2 DEF SupplyInv, SupplyTypeOK, WorkersBusy
  <1>4. QED
    BY <1>1, <1>3, Requeued

LEMMA DepotWriting ==
  ASSUME SupplyInv, WriteResource, UNCHANGED <<version, ppc, plocal>>, pqueue' \subseteq Provider
  PROVE  SupplyTypeOK' /\ WorkersBusy' /\ DepotProgress' /\ DepotApplied'
  <1> DEFINE h == Head(dlocal.todo)
             n == h.name
             t == Tail(dlocal.todo)
  <1>0. dlocal \in DepotLocal /\ dlocal.todo \in Seq(DepotConfig) /\ dlocal.todo # <<>>
        /\ dlocal.managed \in Seq(Resource) /\ dlocal.matched \subseteq Number
    BY DEF SupplyInv, SupplyTypeOK, DepotLocal, WorkersBusy, WriteResource
  <1>1. h \in DepotConfig /\ t \in Seq(DepotConfig)
    BY <1>0
  <1>2. n \in Resource
    BY <1>1 DEF DepotConfig
  <1>3. CASE resource[n].exists # dlocal.found
    <2>1. DReturn(TRUE) /\ UNCHANGED <<depot, resource, releases, dbudget>>
      BY <1>3 DEF WriteResource
    <2>2. QED
      BY <2>1, DepotReturning DEF SupplyInv, SupplyTypeOK
  <1>4. CASE resource[n].exists = dlocal.found
    <2>1. /\ resource' = [resource EXCEPT ![n] = Written(n)]
          /\ dlocal' = [dlocal EXCEPT !.todo = t, !.matched = {}, !.found = FALSE,
                                      !.managed = Append(@, n)]
          /\ dpc' = DRound(t)
          /\ UNCHANGED <<depot, releases, dbudget, dqueue>> /\ dpc = "write"
      BY <1>4 DEF WriteResource
    <2> HIDE DEF n, t
    <2>2. /\ dlocal' \in DepotLocal /\ dlocal'.todo = t
          /\ dlocal'.managed = Append(dlocal.managed, n)
      <3>1. Append(dlocal.managed, n) \in Seq(Resource)
        BY <1>0, <1>2
      <3>2. QED
        BY <1>0, <1>1, <2>1, <3>1 DEF DepotLocal
    <2>3. /\ ResourceOK(n, Written(n))
          /\ Written(n).exists /\ Written(n).config = h
      <3>1. ResourceOK(n, resource[n])
        BY <1>2 DEF SupplyInv, SupplyTypeOK
      <3>2. QED
        BY <1>0, <1>1, <3>1 DEF Written, ResourceOK, NoResource, n
    <2>4. dpc' = IF t = <<>> THEN "status" ELSE "list"
      BY <2>1 DEF DRound
    <2>5. SupplyTypeOK'
      <3>1. DOMAIN resource' = Resource /\ \A m \in Resource : ResourceOK(m, resource'[m])
        BY <1>2, <2>1, <2>3 DEF SupplyInv, SupplyTypeOK
      <3>2. QED
        BY <2>1, <2>2, <2>4, <3>1 DEF SupplyInv, SupplyTypeOK
    <2>6. WorkersBusy'
      <3>1. \A m \in Resource : resource[m].exists => resource'[m].exists
        BY <1>2, <2>1, <2>3 DEF SupplyInv, SupplyTypeOK
      <3>2. QED
        BY <2>1, <2>2, <2>4, <3>1 DEF SupplyInv, WorkersBusy, Resource
    <2>7. DepotApplied'
      BY <2>4 DEF DepotApplied, DepotRests
    <2>8. DepotProgress'
      <3> SUFFICES ASSUME ~dqueue, depot.exists PROVE DepotProgress'
        BY <2>1 DEF DepotProgress
      <3> DEFINE c == Configs(depot.spec)
                 k == Len(dlocal.managed)
                 l == Len(dlocal.todo)
      <3>1. c \in Seq(DepotConfig) /\ c' = c
        BY <2>1, ConfigsOK DEF SupplyInv, SupplyTypeOK
      <3>2. /\ Len(c) = k + l
            /\ \A i \in 1..l : dlocal.todo[i] = c[k + i]
            /\ \A i \in 1..k : dlocal.managed[i] = c[i].name
            /\ Carried(c, k)
        BY <2>1 DEF SupplyInv, DepotProgress
      <3> HIDE DEF c
      <3>3. k \in Nat /\ l \in Nat /\ l > 0 /\ Len(c) \in Nat
        BY <1>0, <3>1
      <3>4. /\ Len(t) = l - 1 /\ \A i \in 1..(l - 1) : t[i] = dlocal.todo[i + 1]
            /\ h = dlocal.todo[1]
        BY <1>0, <3>3 DEF t
      <3>5. /\ Len(Append(dlocal.managed, n)) = k + 1
            /\ Append(dlocal.managed, n)[k + 1] = n
            /\ \A i \in 1..k : Append(dlocal.managed, n)[i] = dlocal.managed[i]
        BY <1>0, <1>2
      <3> DEFINE a == Append(dlocal.managed, n)
      <3> HIDE DEF k, l, h, a
      <3>6. h = c[k + 1] /\ n = c[k + 1].name
        BY <3>2, <3>3, <3>4 DEF n, h
      <3>7. Len(c) = (k + 1) + (l - 1)
        BY <3>2, <3>3
      <3>8. \A i \in 1..(l - 1) : t[i] = c[(k + 1) + i]
        BY <3>2, <3>3, <3>4
      <3>9. \A i \in 1..(k + 1) : a[i] = c[i].name
        BY <3>2, <3>3, <3>5, <3>6 DEF a
      <3>10. ASSUME NEW i \in 1..(k + 1), \A j \in 1..(k + 1) : i < j => c[j].name # c[i].name
             PROVE  resource'[c[i].name].exists /\ resource'[c[i].name].config = c[i]
        <4>1. CASE i = k + 1
          BY <1>2, <2>1, <2>3, <3>6, <4>1 DEF SupplyInv, SupplyTypeOK
        <4>2. CASE i \in 1..k
          <5>1. c[i].name # n
            BY <3>3, <3>6, <3>10, <4>2
          <5>2. \A j \in 1..k : i < j => c[j].name # c[i].name
            BY <3>3, <3>10
          <5>3. resource[c[i].name].exists /\ resource[c[i].name].config = c[i]
            BY <3>2, <4>2, <5>2 DEF Carried
          <5>4. i \in 1..Len(c)
            BY <3>2, <3>3, <4>2
          <5>5. c[i].name \in Resource
            BY <3>1, <5>4, ConfigAt
          <5>6. QED
            BY <2>1, <5>1, <5>3, <5>5 DEF SupplyInv, SupplyTypeOK
        <4>3. QED
          BY <3>3, <4>1, <4>2
      <3>11. Len(dlocal'.todo) = l - 1 /\ Len(dlocal'.managed) = k + 1
             /\ dlocal'.todo = t /\ dlocal'.managed = a
        BY <2>2, <3>4, <3>5 DEF a
      <3>12. Carried(c, Len(dlocal.managed))'
        BY <3>1, <3>10, <3>11 DEF Carried
      <3>13. QED
        BY <3>1, <3>7, <3>8, <3>9, <3>11, <3>12 DEF DepotProgress, c
    <2>9. QED
      BY <2>5, <2>6, <2>7, <2>8
  <1>5. QED
    BY <1>3, <1>4

LEMMA DepotFinishing ==
  ASSUME SupplyInv, DepotStatus, UNCHANGED <<version, ppc, plocal>>, pqueue' \subseteq Provider
  PROVE  SupplyTypeOK' /\ WorkersBusy' /\ DepotProgress' /\ DepotApplied'
  <1>1. CASE ~depot.exists
    <2>1. DReturn(TRUE) /\ UNCHANGED <<depot, resource, releases, dbudget>>
      BY <1>1 DEF DepotStatus
    <2>2. QED
      BY <2>1, DepotReturning DEF SupplyInv, SupplyTypeOK
  <1>2. CASE depot.exists
    <2>1. /\ depot' = [depot EXCEPT !.status = dlocal.managed] /\ dpc = "status"
          /\ dpc' = "idle" /\ dlocal' = DIdle
          /\ dqueue' = (dqueue \/ depot.status # dlocal.managed)
          /\ UNCHANGED <<resource, releases, dbudget>>
      BY <1>2 DEF DepotStatus, DReturn
    <2>2. dlocal.managed \in Seq(Resource) /\ dlocal.todo = <<>>
      BY <2>1 DEF SupplyInv, SupplyTypeOK, DepotLocal, WorkersBusy
    <2>3. /\ depot' \in [exists : BOOLEAN, spec : DepotSpec, status : Seq(Resource)]
          /\ depot'.spec = depot.spec /\ depot'.status = dlocal.managed
      BY <2>1, <2>2 DEF SupplyInv, SupplyTypeOK
    <2>4. SupplyTypeOK' /\ WorkersBusy'
      BY <2>1, <2>3, IdleOK DEF SupplyInv, SupplyTypeOK, WorkersBusy
    <2>5. DepotProgress'
      BY <2>1 DEF DepotProgress
    <2>6. DepotApplied'
      <3> SUFFICES ASSUME ~dqueue PROVE DepotApplied'
        BY <2>1 DEF DepotApplied, DepotRests
      <3> DEFINE c == Configs(depot.spec)
                 k == Len(dlocal.managed)
      <3>1. c \in Seq(DepotConfig) /\ c' = c
        BY <2>3, ConfigsOK DEF SupplyInv, SupplyTypeOK
      <3>2. /\ Len(c) = k + Len(dlocal.todo)
            /\ \A i \in 1..k : dlocal.managed[i] = c[i].name
            /\ Carried(c, k)
        BY <1>2, <2>1 DEF SupplyInv, DepotProgress
      <3> HIDE DEF c
      <3>3. k \in Nat /\ Len(dlocal.todo) = 0 /\ DOMAIN c = 1..Len(c) /\ DOMAIN dlocal.managed = 1..k
        BY <2>2, <3>1
      <3>4. Len(c) = k
        BY <3>2, <3>3
      <3>5. dlocal.managed = [i \in DOMAIN c |-> c[i].name]
        <4>1. dlocal.managed \in [1..k -> Resource]
          BY <2>2, LenProperties
        <4>2. DOMAIN c = 1..k /\ \A i \in 1..k : dlocal.managed[i] = c[i].name
          BY <3>2, <3>3, <3>4
        <4> HIDE DEF k
        <4>3. QED
          BY <4>1, <4>2
      <3>6. Carried(c, Len(c))'
        BY <2>1, <3>1, <3>2, <3>4 DEF Carried
      <3>7. QED
        BY <2>3, <3>1, <3>5, <3>6 DEF DepotApplied, c
    <2>7. QED
      BY <2>4, <2>5, <2>6
  <1>3. QED
    BY <1>1, <1>2

\* What operators and upstream do.
LEMMA DepotEnvironment ==
  ASSUME SupplyInv, UNCHANGED <<version, ppc, plocal>>, pqueue' \subseteq Provider,
         Poll \/ WriteDepot \/ RemoveDepot \/ \E n \in Resource : Publish(n)
  PROVE  SupplyTypeOK' /\ WorkersBusy' /\ DepotProgress' /\ DepotApplied'
  <1>0. ASSUME NEW kind \in DepotEvent, DSpend(kind) PROVE dbudget' \in [DepotEvent -> Nat]
    BY <1>0 DEF DSpend, SupplyInv, SupplyTypeOK
  <1>1. CASE Poll
    <2>1. SupplyTypeOK' /\ WorkersBusy'
      BY <1>1 DEF Poll, SupplyInv, SupplyTypeOK, WorkersBusy
    <2>2. QED
      BY <1>1, <2>1, Requeued DEF Poll
  <1>2. CASE WriteDepot \/ RemoveDepot
    <2>1. dbudget' \in [DepotEvent -> Nat]
      BY <1>0, <1>2 DEF WriteDepot, RemoveDepot, DepotEvent
    <2>2. depot' \in [exists : BOOLEAN, spec : DepotSpec, status : Seq(Resource)]
      BY <1>2, DepotConstants DEF WriteDepot, RemoveDepot, SupplyInv, SupplyTypeOK
    <2>3. dqueue' = TRUE /\ UNCHANGED <<resource, releases, dpc, dlocal>>
      BY <1>2 DEF WriteDepot, RemoveDepot
    <2>4. SupplyTypeOK' /\ WorkersBusy'
      BY <2>1, <2>2, <2>3 DEF SupplyInv, SupplyTypeOK, WorkersBusy
    <2>5. QED
      BY <2>3, <2>4, Requeued
  <1>3. ASSUME NEW n \in Resource, Publish(n)
        PROVE  SupplyTypeOK' /\ WorkersBusy' /\ DepotProgress' /\ DepotApplied'
    <2>1. dbudget' \in [DepotEvent -> Nat] /\ UNCHANGED <<depot, resource, dqueue, dpc, dlocal>>
      BY <1>0, <1>3 DEF Publish, DepotEvent
    <2>2. PICK i \in DOMAIN Upcoming[n] : releases' = [releases EXCEPT ![n] = <<Upcoming[n][i]>> \o @]
      BY <1>3 DEF Publish
    <2>3. Upcoming[n] \in Seq(Tag) /\ releases[n] \in Seq(Tag)
      BY DepotConstants DEF SupplyInv, SupplyTypeOK
    <2>4. Upcoming[n][i] \in Tag
      BY <2>3
    <2>5. <<Upcoming[n][i]>> \o releases[n] \in Seq(Tag)
      BY <2>3, <2>4
    <2>6. releases' \in [Resource -> Seq(Tag)]
      BY <2>2, <2>5 DEF SupplyInv, SupplyTypeOK
    <2>7. SupplyTypeOK' /\ WorkersBusy'
      BY <2>1, <2>6 DEF SupplyInv, SupplyTypeOK, WorkersBusy
    <2>8. QED
      BY <2>1, <2>7, DepotKept
  <1>4. QED
    BY <1>1, <1>2, <1>3

LEMMA DepotSiding ==
  ASSUME SupplyInv, DepotSide
  PROVE  SupplyInv'
  <1>1. /\ UNCHANGED <<version, ppc, plocal>> /\ pqueue' \subseteq Provider /\ pqueue \subseteq pqueue'
        /\ \A n \in Provider : ProviderChanged(resource[n], resource'[n]) => n \in pqueue'
    BY DEF DepotSide, SupplyInv, SupplyTypeOK
  <1>2. SupplyTypeOK' /\ WorkersBusy' /\ DepotProgress' /\ DepotApplied'
    <2>1. CASE RejectConfig
      BY <1>1, <2>1, DepotReturning DEF RejectConfig, SupplyInv, SupplyTypeOK
    <2>2. CASE DepotInterrupted
      <3>1. dbudget' \in [DepotEvent -> Nat]
        BY <2>2 DEF DepotInterrupted, DSpend, DepotEvent, SupplyInv, SupplyTypeOK
      <3>2. QED
        BY <1>1, <2>2, <3>1, DepotReturning DEF DepotInterrupted
    <2>3. QED
      BY <1>1, <2>1, <2>2, DepotReconciling, DepotReading, DepotWriting, DepotFinishing, DepotEnvironment
         DEF DepotSide, DepotNext, DepotStep
  <1>3. ProviderProgress' /\ NothingStale'
    BY <1>1, ProviderKept
  <1>4. QED
    BY <1>2, <1>3 DEF SupplyInv

-----------------------------------------------------------------------------
\* Steps of the Provider controller

\* The Versions a Provider asks for are Versions of its own.
LEMMA DesiredOK ==
  ASSUME NEW n \in Provider, NEW p, ResourceOK(n, p), p.exists
  PROVE  /\ Desired(n, p) \subseteq {n} \X Number \X Platform
         /\ Desired(n, p) \subseteq Key
  <1>1. p.versions \subseteq Number /\ p.config.platforms \subseteq Platform
    BY DEF ResourceOK, DepotConfig
  <1>2. QED
    BY <1>1 DEF Desired, Key

\* What the worker writes about its Provider leaves the config alone.
LEMMA ProviderWrites ==
  ASSUME SupplyInv, NEW n \in Provider, NEW r, resource' = [resource EXCEPT ![n] = r],
         ResourceOK(n, r), r.exists = resource[n].exists, r.config = resource[n].config,
         UNCHANGED <<depot, dqueue, dpc, dlocal>>
  PROVE  /\ DOMAIN resource' = Resource /\ \A m \in Resource : ResourceOK(m, resource'[m])
         /\ \A m \in Resource : resource'[m].exists = resource[m].exists
         /\ \A m \in Resource : resource'[m].config = resource[m].config
         /\ \A m \in Provider : m # n => resource'[m] = resource[m]
         /\ resource'[n] = r
         /\ DepotProgress' /\ DepotApplied'
  <1>1. n \in Resource /\ DOMAIN resource = Resource /\ \A m \in Resource : ResourceOK(m, resource[m])
    BY DEF Resource, SupplyInv, SupplyTypeOK
  <1>2. /\ DOMAIN resource' = Resource /\ \A m \in Resource : ResourceOK(m, resource'[m])
        /\ \A m \in Resource : resource'[m].exists = resource[m].exists
        /\ \A m \in Resource : resource'[m].config = resource[m].config
        /\ \A m \in Provider : m # n => resource'[m] = resource[m]
        /\ resource'[n] = r
    BY <1>1 DEF Resource
  <1>3. DepotProgress' /\ DepotApplied'
    BY <1>2, DepotKept
  <1>4. QED
    BY <1>2, <1>3

\* The end of a reconcile.
LEMMA Returning ==
  ASSUME SupplyInv, ppc # "idle", NEW name, name = plocal.name,
         NEW requeue \in BOOLEAN, PReturn(requeue),
         UNCHANGED <<depot, resource, releases, dqueue, dpc, dlocal>>,
         dbudget' \in [DepotEvent -> Nat], version' \in [Key -> OwnedVersion],
         \A m \in Provider : Lasting(m)' \subseteq Lasting(m),
         \/ requeue
         \/ name \notin pqueue /\ LabelOf[name] = name =>
                Lasting(name)' \subseteq Desired(name, resource[name])
  PROVE  SupplyInv'
  <1>1. /\ plocal.name \in Provider /\ ppc' = "idle" /\ plocal' = PIdle
        /\ pqueue' = IF requeue THEN pqueue \cup {plocal.name} ELSE pqueue
    BY DEF PReturn, SupplyInv, WorkersBusy
  <1>2. SupplyTypeOK'
    BY <1>1, IdleOK DEF SupplyInv, SupplyTypeOK
  <1>3. WorkersBusy'
    BY <1>1 DEF SupplyInv, WorkersBusy
  <1>4. DepotProgress' /\ DepotApplied'
    BY DepotKept
  <1>5. ProviderProgress'
    BY <1>1 DEF ProviderProgress
  <1>6. NothingStale'
    <2> SUFFICES ASSUME NEW n \in Provider, resource[n].exists, LabelOf[n] = n, n \notin pqueue'
                 PROVE  Lasting(n)' \subseteq Desired(n, resource[n])
      BY DEF NothingStale
    <2>1. CASE n = name
      BY <1>1, <2>1
    <2>2. CASE n # name
      BY <1>1, <2>2 DEF SupplyInv, NothingStale
    <2>3. QED
      BY <2>1, <2>2
  <1>7. QED
    BY <1>2, <1>3, <1>4, <1>5, <1>6 DEF SupplyInv

LEMMA ProviderReconciling ==
  ASSUME SupplyInv, NEW n \in Provider, ProviderReconcile(n)
  PROVE  SupplyInv'
  <1> DEFINE p == resource[n]
  <1>0. /\ ppc = "idle" /\ n \in pqueue
        /\ UNCHANGED <<depot, releases, dqueue, dpc, dlocal, dbudget, resource, version>>
    BY DEF ProviderReconcile, depotVars
  <1>1. ResourceOK(n, p) /\ p.versions \subseteq Number
    BY DEF SupplyInv, SupplyTypeOK, Resource, ResourceOK
  <1>2. DepotProgress' /\ DepotApplied'
    BY <1>0, DepotKept
  <1>3. \A m : Lasting(m)' = Lasting(m)
    BY <1>0 DEF Lasting
  <1>4. CASE p.exists /\ Check(p) # "error"
    <2> DEFINE keep == ToKeep(p.versions, p.config.limit)
               desired == Desired(n, p)
               new == [PIdle EXCEPT !.name = n, !.provider = p, !.keep = keep,
                                    !.todo = desired, !.desired = desired]
    <2>1. pqueue' = pqueue \ {n} /\ ppc' = Check(p) /\ plocal' = new
      BY <1>4 DEF ProviderReconcile
    <2>2. ppc' \in {"trim", "loop"}
      BY <1>4, <2>1 DEF Check
    <2>3. keep \subseteq Number
      BY <1>1 DEF ToKeep, Newest
    <2>4. desired \subseteq {n} \X Number \X Platform
      BY <1>1, <1>4, DesiredOK
    <2> HIDE DEF keep, desired, p
    <2>5. /\ DOMAIN new = DOMAIN PIdle /\ new.name = n /\ new.provider = p /\ new.keep = keep
          /\ new.todo = desired /\ new.desired = desired /\ new.doomed = {} /\ new.object \in OwnedVersion
      BY NoVersionOK DEF PIdle
    <2> HIDE DEF new
    <2>6. SupplyTypeOK'
      BY <1>0, <2>1, <2>2, <2>3, <2>4, <2>5 DEF SupplyInv, SupplyTypeOK
    <2>7. WorkersBusy'
      BY <1>0, <1>1, <1>4, <2>1, <2>2, <2>5 DEF SupplyInv, WorkersBusy, p
    <2>8. ProviderProgress'
      BY <1>0, <2>1, <2>2, <2>5 DEF ProviderProgress, desired, p
    <2>9. NothingStale'
      BY <1>0, <1>3, <2>1, <2>2, <2>5 DEF SupplyInv, NothingStale
    <2>10. QED
      BY <1>2, <2>6, <2>7, <2>8, <2>9 DEF SupplyInv
  <1>5. CASE ~(p.exists /\ Check(p) # "error")
    <2>1. /\ pqueue' = IF p.exists THEN pqueue ELSE pqueue \ {n}
          /\ UNCHANGED <<ppc, plocal>>
      BY <1>5 DEF ProviderReconcile
    <2>2. SupplyTypeOK' /\ WorkersBusy'
      BY <1>0, <2>1 DEF SupplyInv, SupplyTypeOK, WorkersBusy
    <2>3. ProviderProgress' /\ NothingStale'
      BY <1>0, <1>3, <2>1 DEF SupplyInv, ProviderProgress, NothingStale
    <2>4. QED
      BY <1>2, <2>2, <2>3 DEF SupplyInv
  <1>6. QED
    BY <1>4, <1>5

\* While the worker is busy with a Provider, the others keep what they have.
LEMMA OthersKept ==
  ASSUME SupplyInv, ppc # "idle", ppc' # "idle", NEW n, n = plocal.name, plocal'.name = n,
         pqueue \subseteq pqueue',
         \A m \in Provider : m # n => resource'[m] = resource[m] /\ Lasting(m)' \subseteq Lasting(m)
  PROVE  NothingStale'
  BY DEF SupplyInv, NothingStale

LEMMA Trimming ==
  ASSUME SupplyInv, TrimProvider
  PROVE  SupplyInv'
  <1>0. PICK n \in Provider : n = plocal.name /\ resource[n].exists
    BY DEF SupplyInv, WorkersBusy, TrimProvider
  <1> DEFINE p == [resource[n] EXCEPT !.versions = plocal.keep]
             desired == Desired(n, p)
             new == [plocal EXCEPT !.provider = p, !.todo = desired, !.desired = desired]
  <1>1. /\ resource' = [resource EXCEPT ![n] = p] /\ ppc' = "loop" /\ plocal' = new /\ ppc = "trim"
        /\ pqueue' = IF ProviderChanged(resource[n], p) THEN pqueue \cup {n} ELSE pqueue
        /\ UNCHANGED <<depot, releases, dqueue, dpc, dlocal, dbudget, version>>
    BY <1>0 DEF TrimProvider, depotVars
  <1>2. ResourceOK(n, resource[n]) /\ plocal.keep \subseteq Number
    BY DEF SupplyInv, SupplyTypeOK, Resource
  <1>3. /\ ResourceOK(n, p) /\ p.exists
        /\ p.exists = resource[n].exists /\ p.config = resource[n].config
    BY <1>0, <1>2 DEF ResourceOK, NoResource
  <1>4. desired \subseteq {n} \X Number \X Platform
    BY <1>3, DesiredOK
  <1> HIDE DEF p, desired
  <1>5. /\ DOMAIN new = DOMAIN PIdle /\ new.name = n /\ new.provider = p /\ new.keep = plocal.keep
        /\ new.todo = desired /\ new.desired = desired /\ new.doomed = plocal.doomed
        /\ new.object = plocal.object
    BY <1>0 DEF PIdle, SupplyInv, SupplyTypeOK
  <1> HIDE DEF new
  <1>6. /\ DOMAIN resource' = Resource /\ \A m \in Resource : ResourceOK(m, resource'[m])
        /\ \A m \in Resource : resource'[m].exists = resource[m].exists
        /\ \A m \in Provider : m # n => resource'[m] = resource[m]
        /\ resource'[n] = p /\ DepotProgress' /\ DepotApplied'
    BY <1>1, <1>3, ProviderWrites
  <1>7. SupplyTypeOK'
    BY <1>1, <1>4, <1>5, <1>6 DEF SupplyInv, SupplyTypeOK
  <1>8. WorkersBusy'
    BY <1>1, <1>3, <1>5, <1>6 DEF SupplyInv, WorkersBusy
  <1>9. ProviderProgress'
    BY <1>1, <1>5, <1>6 DEF ProviderProgress, desired
  <1>10. NothingStale'
    <2>1. \A m : Lasting(m)' = Lasting(m)
      BY <1>1 DEF Lasting
    <2>2. QED
      BY <1>0, <1>1, <1>5, <1>6, <2>1, OthersKept
  <1>11. QED
    BY <1>6, <1>7, <1>8, <1>9, <1>10 DEF SupplyInv

LEMMA CurrentOK ==
  ASSUME plocal.todo # {}
  PROVE  Current \in plocal.todo
  BY Zenon DEF Current

LEMMA Reading ==
  ASSUME SupplyInv, ReadOwned
  PROVE  SupplyInv'
  <1>0. PICK n \in Provider : n = plocal.name /\ resource[n].exists
    BY DEF SupplyInv, WorkersBusy, ReadOwned
  <1>1. /\ ppc = "loop"
        /\ UNCHANGED <<depot, releases, dqueue, dpc, dlocal, dbudget, resource, version, pqueue>>
    BY DEF ReadOwned, depotVars
  <1>2. \A m : Lasting(m)' = Lasting(m)
    BY <1>1 DEF Lasting
  <1>3. \/ /\ plocal.todo = {} /\ plocal' = plocal /\ ppc' \in {"reset", "status"}
        \/ /\ plocal.todo # {} /\ plocal' = [plocal EXCEPT !.object = version[Current]] /\ ppc' = "write"
    BY DEF ReadOwned, AfterLoop
  <1>4. plocal.todo # {} => version[Current] \in OwnedVersion
    <2>1. plocal.todo \subseteq Key
      BY <1>0 DEF SupplyInv, SupplyTypeOK, Key
    <2>2. QED
      BY <2>1, CurrentOK DEF SupplyInv, SupplyTypeOK
  <1>5. /\ DOMAIN plocal' = DOMAIN PIdle /\ plocal'.name = plocal.name /\ plocal'.provider = plocal.provider
        /\ plocal'.keep = plocal.keep /\ plocal'.todo = plocal.todo /\ plocal'.desired = plocal.desired
        /\ plocal'.doomed = plocal.doomed /\ plocal'.object \in OwnedVersion
    BY <1>3, <1>4 DEF PIdle, SupplyInv, SupplyTypeOK
  <1>6. ppc' \in {"reset", "status", "write"} /\ (ppc' = "write" => plocal.todo # {})
    BY <1>3
  <1>7. SupplyTypeOK'
    BY <1>1, <1>5, <1>6 DEF SupplyInv, SupplyTypeOK
  <1>8. WorkersBusy'
    BY <1>1, <1>5, <1>6 DEF SupplyInv, WorkersBusy
  <1>9. ProviderProgress'
    BY <1>1, <1>5, <1>6 DEF SupplyInv, ProviderProgress
  <1>10. NothingStale'
    BY <1>0, <1>1, <1>2, <1>5, <1>6, OthersKept
  <1>11. DepotProgress' /\ DepotApplied'
    BY <1>1, DepotKept
  <1>12. QED
    BY <1>7, <1>8, <1>9, <1>10, <1>11 DEF SupplyInv

LEMMA Writing ==
  ASSUME SupplyInv, WriteOwned
  PROVE  SupplyInv'
  <1>0. PICK n \in Provider : n = plocal.name /\ resource[n].exists
    BY DEF SupplyInv, WorkersBusy, WriteOwned
  <1>1. /\ ppc = "write" /\ plocal.todo # {}
        /\ UNCHANGED <<depot, releases, dqueue, dpc, dlocal, dbudget, resource>>
    BY DEF WriteOwned, depotVars, SupplyInv, WorkersBusy
  <1>2. PICK k \in plocal.todo : k = Current
    BY <1>1, CurrentOK
  <1>3. k \in Key /\ k[1] = n
    BY <1>0 DEF SupplyInv, SupplyTypeOK, Key
  <1>4. CASE version[k] = plocal.object
    <2> DEFINE w == Rewritten(version[k], plocal.provider.config)
    <2>1. /\ version' = [version EXCEPT ![k] = w]
          /\ plocal' = [plocal EXCEPT !.todo = @ \ {k}, !.object = NoVersion]
          /\ ppc' = "loop" /\ pqueue' = pqueue
      BY <1>2, <1>4 DEF WriteOwned
    <2>2. w \in OwnedVersion
      <3>1. plocal.provider.config \in DepotConfig
        BY <1>1 DEF SupplyInv, WorkersBusy, ResourceOK
      <3>2. version[k] \in OwnedVersion
        BY <1>3 DEF SupplyInv, SupplyTypeOK
      <3>3. QED
        BY <3>1, <3>2, RewrittenOK
    <2> HIDE DEF w
    <2>3. version' \in [Key -> OwnedVersion]
      BY <2>1, <2>2 DEF SupplyInv, SupplyTypeOK
    <2>4. \A m \in Provider : m # n => Lasting(m)' \subseteq Lasting(m)
      BY <1>3, <2>1 DEF Lasting, SupplyInv, SupplyTypeOK
    <2>5. /\ DOMAIN plocal' = DOMAIN PIdle /\ plocal'.name = plocal.name
          /\ plocal'.provider = plocal.provider /\ plocal'.keep = plocal.keep
          /\ plocal'.todo = plocal.todo \ {k} /\ plocal'.desired = plocal.desired
          /\ plocal'.doomed = plocal.doomed /\ plocal'.object \in OwnedVersion
      BY <2>1, NoVersionOK DEF PIdle, SupplyInv, SupplyTypeOK
    <2>6. SupplyTypeOK'
      BY <1>1, <2>1, <2>3, <2>5 DEF SupplyInv, SupplyTypeOK
    <2>7. WorkersBusy'
      BY <1>1, <2>1, <2>5 DEF SupplyInv, WorkersBusy
    <2>8. ProviderProgress'
      BY <1>1, <2>1, <2>5 DEF SupplyInv, ProviderProgress
    <2>9. NothingStale'
      BY <1>0, <1>1, <2>1, <2>4, <2>5, OthersKept
    <2>10. QED
      BY <1>1, <2>6, <2>7, <2>8, <2>9, DepotKept DEF SupplyInv
  <1>5. CASE version[k] # plocal.object
    <2>1. PReturn(TRUE) /\ UNCHANGED version
      BY <1>2, <1>5 DEF WriteOwned
    <2>2. \A m : Lasting(m)' = Lasting(m)
      BY <2>1 DEF Lasting
    <2>3. QED
      BY <1>0, <1>1, <2>1, <2>2, Returning DEF SupplyInv, SupplyTypeOK
  <1>6. QED
    BY <1>4, <1>5

\* The force flag and the status are no part of what a Provider asks for.
LEMMA Noting ==
  ASSUME SupplyInv, ProviderResetForceSync \/ ProviderStatus
  PROVE  SupplyInv'
  <1>0. PICK n \in Provider : n = plocal.name /\ resource[n].exists
    BY DEF SupplyInv, WorkersBusy, ProviderResetForceSync, ProviderStatus
  <1>1. /\ ResourceOK(n, resource[n]) /\ DOMAIN resource = Resource /\ n \in Resource
    BY DEF SupplyInv, SupplyTypeOK, Resource
  <1>2. PICK r : /\ resource' = [resource EXCEPT ![n] = r] /\ ResourceOK(n, r)
                 /\ r.exists = resource[n].exists /\ r.config = resource[n].config
                 /\ r.versions = resource[n].versions
    <2>1. CASE ProviderResetForceSync
      <3> DEFINE r == [resource[n] EXCEPT !.forceSync = FALSE]
      <3>1. resource' = [resource EXCEPT ![n] = r]
        BY <1>0, <2>1 DEF ProviderResetForceSync
      <3>2. /\ ResourceOK(n, r) /\ r.exists = resource[n].exists /\ r.config = resource[n].config
            /\ r.versions = resource[n].versions
        BY <1>0, <1>1 DEF ResourceOK, NoResource
      <3>3. QED
        BY <3>1, <3>2
    <2>2. CASE ProviderStatus
      <3> DEFINE latest == IF resource[n].versions = {} THEN resource[n].latest
                           ELSE CHOOSE v \in resource[n].versions :
                                   \A w \in resource[n].versions : w <= v
                 r == [resource[n] EXCEPT !.synced = TRUE, !.latest = latest]
      <3>1. resource' = [resource EXCEPT ![n] = r]
        BY <1>0, <1>1, <2>2 DEF ProviderStatus, ResourceOK, NoResource
      <3> HIDE DEF latest
      <3>2. /\ ResourceOK(n, r) /\ r.exists = resource[n].exists /\ r.config = resource[n].config
            /\ r.versions = resource[n].versions
        BY <1>0, <1>1 DEF ResourceOK, NoResource
      <3>3. QED
        BY <3>1, <3>2
    <2>3. QED
      BY <2>1, <2>2
  <1>3. /\ ppc \in {"reset", "status"} /\ ppc' \in {"status", "removals"}
        /\ pqueue \subseteq pqueue' /\ pqueue' \subseteq Provider
        /\ UNCHANGED <<depot, releases, dqueue, dpc, dlocal, dbudget, version, plocal>>
    BY <1>0 DEF ProviderResetForceSync, ProviderStatus, depotVars, SupplyInv, SupplyTypeOK
  <1>4. /\ DOMAIN resource' = Resource /\ \A m \in Resource : ResourceOK(m, resource'[m])
        /\ \A m \in Resource : resource'[m].exists = resource[m].exists
        /\ \A m \in Provider : m # n => resource'[m] = resource[m]
        /\ resource'[n] = r /\ DepotProgress' /\ DepotApplied'
    BY <1>2, <1>3, ProviderWrites
  <1>5. SupplyTypeOK'
    BY <1>3, <1>4 DEF SupplyInv, SupplyTypeOK
  <1>6. WorkersBusy'
    BY <1>0, <1>3, <1>4 DEF SupplyInv, WorkersBusy, Resource
  <1>7. ProviderProgress'
    <2>1. Desired(n, resource'[n]) = Desired(n, resource[n])
      BY <1>2, <1>4 DEF Desired
    <2>2. QED
      BY <1>0, <1>3, <2>1 DEF SupplyInv, ProviderProgress
  <1>8. NothingStale'
    <2>1. \A m : Lasting(m)' = Lasting(m)
      BY <1>3 DEF Lasting
    <2>2. QED
      BY <1>0, <1>3, <1>4, <2>1, OthersKept
  <1>9. QED
    BY <1>4, <1>5, <1>6, <1>7, <1>8 DEF SupplyInv

LEMMA Listing ==
  ASSUME SupplyInv, ListStale
  PROVE  SupplyInv'
  <1>0. PICK n \in Provider : n = plocal.name /\ resource[n].exists
    BY DEF SupplyInv, WorkersBusy, ListStale
  <1> DEFINE doomed == {k \in Key : LabelOf[k[1]] = n /\ version[k].exists} \ plocal.desired
  <1>1. /\ ppc = "removals"
        /\ UNCHANGED <<depot, releases, dqueue, dpc, dlocal, dbudget, resource, version>>
    BY DEF ListStale, depotVars
  <1>2. \A m : Lasting(m)' = Lasting(m)
    BY <1>1 DEF Lasting
  <1>3. LabelOf[n] = n => Lasting(n) \subseteq plocal.desired \cup doomed
    BY DEF Lasting
  <1>4. n \notin pqueue => plocal.desired = Desired(n, resource[n])
    BY <1>0, <1>1 DEF SupplyInv, ProviderProgress
  <1>5. doomed \subseteq Key
    OBVIOUS
  <1>6. CASE doomed = {}
    <2>1. PReturn(FALSE)
      BY <1>0, <1>6 DEF ListStale
    <2>2. n \notin pqueue /\ LabelOf[n] = n => Lasting(n)' \subseteq Desired(n, resource[n])
      BY <1>2, <1>3, <1>4, <1>6
    <2> HIDE DEF doomed
    <2>3. QED
      BY <1>0, <1>1, <1>2, <2>1, <2>2, Returning DEF SupplyInv, SupplyTypeOK
  <1>7. CASE doomed # {}
    <2>1. plocal' = [plocal EXCEPT !.doomed = doomed] /\ ppc' = "delete" /\ pqueue' = pqueue
      BY <1>0, <1>7 DEF ListStale
    <2> HIDE DEF doomed
    <2>2. /\ DOMAIN plocal' = DOMAIN PIdle /\ plocal'.name = plocal.name
          /\ plocal'.provider = plocal.provider /\ plocal'.keep = plocal.keep
          /\ plocal'.todo = plocal.todo /\ plocal'.desired = plocal.desired
          /\ plocal'.doomed = doomed /\ plocal'.object = plocal.object
      BY <2>1 DEF PIdle, SupplyInv, SupplyTypeOK
    <2>3. SupplyTypeOK'
      BY <1>1, <1>5, <2>1, <2>2 DEF SupplyInv, SupplyTypeOK
    <2>4. WorkersBusy'
      BY <1>1, <1>7, <2>1, <2>2 DEF SupplyInv, WorkersBusy
    <2>5. ProviderProgress'
      <3>1. Lasting(plocal.name)' = Lasting(n)
        BY <1>0, <1>1, <2>2 DEF Lasting
      <3>2. QED
        BY <1>0, <1>1, <1>3, <1>4, <2>1, <2>2, <3>1 DEF ProviderProgress
    <2>6. NothingStale'
      BY <1>0, <1>1, <1>2, <2>1, <2>2, OthersKept
    <2>7. QED
      BY <1>1, <2>3, <2>4, <2>5, <2>6, DepotKept DEF SupplyInv
  <1>8. QED
    BY <1>6, <1>7

LEMMA Deleting ==
  ASSUME SupplyInv, DeleteStale
  PROVE  SupplyInv'
  <1>0. PICK n \in Provider : n = plocal.name /\ resource[n].exists
    BY DEF SupplyInv, WorkersBusy, DeleteStale
  <1>1. /\ ppc = "delete" /\ plocal.doomed # {}
        /\ UNCHANGED <<depot, releases, dqueue, dpc, dlocal, dbudget, resource>>
    BY DEF DeleteStale, depotVars, SupplyInv, WorkersBusy
  <1>2. PICK k \in plocal.doomed : k = CHOOSE j \in plocal.doomed : TRUE
    BY <1>1
  <1>3. k \in Key /\ version[k] \in OwnedVersion
    BY DEF SupplyInv, SupplyTypeOK
  <1>4. CASE ~version[k].exists
    <2>1. PReturn(TRUE) /\ UNCHANGED version
      BY <1>2, <1>4 DEF DeleteStale
    <2>2. \A m : Lasting(m)' = Lasting(m)
      BY <2>1 DEF Lasting
    <2>3. QED
      BY <1>0, <1>1, <2>1, <2>2, Returning DEF SupplyInv, SupplyTypeOK
  <1>5. CASE version[k].exists
    <2> DEFINE w == DeletedVersion(version[k])
    <2>1. /\ version' = [version EXCEPT ![k] = w]
          /\ \/ plocal.doomed = {k} /\ PReturn(FALSE)
             \/ /\ plocal.doomed # {k}
                /\ plocal' = [plocal EXCEPT !.doomed = @ \ {k}]
                /\ UNCHANGED <<ppc, pqueue>>
      BY <1>2, <1>5 DEF DeleteStale
    <2>2. w \in OwnedVersion /\ (~w.exists \/ w.deleting)
      BY <1>3, DeletedOK
    <2> HIDE DEF w
    <2>3. version' \in [Key -> OwnedVersion]
      BY <2>1, <2>2 DEF SupplyInv, SupplyTypeOK
    <2>4. \A m : Lasting(m)' \subseteq Lasting(m) \ {k}
      BY <1>3, <2>1, <2>2 DEF Lasting, SupplyInv, SupplyTypeOK
    <2>5. n \notin pqueue => /\ plocal.desired = Desired(n, resource[n])
                             /\ LabelOf[n] = n => Lasting(n) \subseteq plocal.desired \cup plocal.doomed
      BY <1>0, <1>1 DEF SupplyInv, ProviderProgress
    <2>6. CASE plocal.doomed = {k} /\ PReturn(FALSE)
      <3>1. n \notin pqueue /\ LabelOf[n] = n => Lasting(n)' \subseteq Desired(n, resource[n])
        BY <2>4, <2>5, <2>6
      <3>2. dbudget' \in [DepotEvent -> Nat] /\ \A m \in Provider : Lasting(m)' \subseteq Lasting(m)
        BY <1>1, <2>4 DEF SupplyInv, SupplyTypeOK
      <3>3. QED
        BY <1>0, <1>1, <2>3, <2>6, <3>1, <3>2, Returning
    <2>7. CASE /\ plocal.doomed # {k}
               /\ plocal' = [plocal EXCEPT !.doomed = @ \ {k}]
               /\ UNCHANGED <<ppc, pqueue>>
      <3>1. /\ DOMAIN plocal' = DOMAIN PIdle /\ plocal'.name = plocal.name
            /\ plocal'.provider = plocal.provider /\ plocal'.keep = plocal.keep
            /\ plocal'.todo = plocal.todo /\ plocal'.desired = plocal.desired
            /\ plocal'.doomed = plocal.doomed \ {k} /\ plocal'.object = plocal.object
        BY <2>7 DEF PIdle, SupplyInv, SupplyTypeOK
      <3>2. plocal'.doomed # {}
        BY <1>2, <2>7, <3>1
      <3>3. SupplyTypeOK'
        BY <1>1, <2>3, <2>7, <3>1 DEF SupplyInv, SupplyTypeOK
      <3>4. WorkersBusy'
        BY <1>1, <2>7, <3>1, <3>2 DEF SupplyInv, WorkersBusy
      <3>5. ProviderProgress'
        <4>1. Lasting(plocal.name)' \subseteq Lasting(n) \ {k}
          <5>1. Lasting(plocal.name)' = Lasting(n)'
            BY <1>0, <3>1 DEF Lasting
          <5>2. QED
            BY <2>4, <5>1
        <4>2. QED
          BY <1>0, <1>1, <2>5, <2>7, <3>1, <4>1 DEF ProviderProgress
      <3>6. NothingStale'
        BY <1>0, <1>1, <2>4, <2>7, <3>1, OthersKept
      <3>7. QED
        BY <1>1, <3>3, <3>4, <3>5, <3>6, DepotKept DEF SupplyInv
    <2>8. QED
      BY <2>1, <2>6, <2>7
  <1>6. QED
    BY <1>4, <1>5

LEMMA Interrupting ==
  ASSUME SupplyInv, ProviderInterrupted
  PROVE  SupplyInv'
  <1>1. dbudget' \in [DepotEvent -> Nat]
    BY DEF ProviderInterrupted, DSpend, DepotEvent, SupplyInv, SupplyTypeOK
  <1>2. \A m : Lasting(m)' = Lasting(m)
    BY DEF ProviderInterrupted, Lasting
  <1>3. PICK name : name = plocal.name
    OBVIOUS
  <1>4. QED
    BY <1>1, <1>2, <1>3, Returning DEF ProviderInterrupted, SupplyInv, SupplyTypeOK

LEMMA Forcing ==
  ASSUME SupplyInv, NEW n \in Provider, ForceProvider(n)
  PROVE  SupplyInv'
  <1> DEFINE r == [resource[n] EXCEPT !.forceSync = TRUE]
  <1>0. ResourceOK(n, resource[n]) /\ n \in Resource /\ DOMAIN resource = Resource
    BY DEF SupplyInv, SupplyTypeOK, Resource
  <1>1. /\ resource' = [resource EXCEPT ![n] = r] /\ resource[n].exists
        /\ pqueue' = pqueue \cup {n}
        /\ UNCHANGED <<depot, releases, dqueue, dpc, dlocal, version, ppc, plocal>>
    BY <1>0 DEF ForceProvider
  <1>2. dbudget' \in [DepotEvent -> Nat]
    BY DEF ForceProvider, DSpend, DepotEvent, SupplyInv, SupplyTypeOK
  <1>3. ResourceOK(n, r) /\ r.exists = resource[n].exists /\ r.config = resource[n].config
    BY <1>0, <1>1 DEF ResourceOK, NoResource
  <1> HIDE DEF r
  <1>4. /\ DOMAIN resource' = Resource /\ \A m \in Resource : ResourceOK(m, resource'[m])
        /\ \A m \in Resource : resource'[m].exists = resource[m].exists
        /\ \A m \in Provider : m # n => resource'[m] = resource[m]
        /\ DepotProgress' /\ DepotApplied'
    BY <1>1, <1>3, ProviderWrites
  <1>5. SupplyTypeOK'
    BY <1>1, <1>2, <1>4 DEF SupplyInv, SupplyTypeOK
  <1>6. WorkersBusy'
    BY <1>1, <1>4 DEF SupplyInv, WorkersBusy, Resource
  <1>7. \A m \in Provider : ProviderChanged(resource[m], resource'[m]) => m \in pqueue'
    BY <1>1, <1>4 DEF ProviderChanged
  <1>8. QED
    BY <1>1, <1>4, <1>5, <1>6, <1>7, ProviderKept DEF SupplyInv

LEMMA Syncing ==
  ASSUME SupplyInv, NEW k \in Key, SyncVersion(k)
  PROVE  SupplyInv'
  <1> DEFINE o == version[k]
             w == IF o.deleting THEN NoVersion ELSE [o EXCEPT !.finalizer = TRUE, !.queued = FALSE]
  <1>0. o \in OwnedVersion
    BY DEF SupplyInv, SupplyTypeOK
  <1>1. /\ version' = [version EXCEPT ![k] = w]
        /\ UNCHANGED <<depot, releases, dqueue, dpc, dlocal, dbudget, resource, pqueue, ppc, plocal>>
    BY DEF SyncVersion, depotVars
  <1>2. w \in OwnedVersion /\ (w.exists /\ ~w.deleting => o.exists /\ ~o.deleting)
    BY <1>0, NoVersionOK DEF OwnedVersion
  <1> HIDE DEF w
  <1>3. version' \in [Key -> OwnedVersion]
    BY <1>1, <1>2 DEF SupplyInv, SupplyTypeOK
  <1>4. \A m : Lasting(m)' \subseteq Lasting(m)
    BY <1>1, <1>2 DEF Lasting, SupplyInv, SupplyTypeOK
  <1>5. SupplyTypeOK' /\ WorkersBusy'
    BY <1>1, <1>3 DEF SupplyInv, SupplyTypeOK, WorkersBusy
  <1>6. ProviderProgress'
    <2>1. Lasting(plocal.name)' \subseteq Lasting(plocal.name)
      BY <1>1, <1>2 DEF Lasting, SupplyInv, SupplyTypeOK
    <2>2. QED
      BY <1>1, <2>1 DEF SupplyInv, ProviderProgress
  <1>7. NothingStale'
    BY <1>1, <1>4 DEF SupplyInv, NothingStale
  <1>8. QED
    BY <1>1, <1>5, <1>6, <1>7, DepotKept DEF SupplyInv

-----------------------------------------------------------------------------
\* Both controllers together

LEMMA SupplyStart ==
  ASSUME SupplyInit
  PROVE  SupplyInv
  <1>1. SupplyTypeOK
    <2>1. version \in [Key -> OwnedVersion]
      BY NoVersionOK DEF SupplyInit
    <2>2. DOMAIN resource = Resource /\ \A n \in Resource : ResourceOK(n, resource[n])
      BY NoResourceOK DEF SupplyInit, DepotInit
    <2>3. QED
      BY <2>1, <2>2, IdleOK, DepotConstants DEF SupplyInit, DepotInit, SupplyTypeOK
  <1>2. WorkersBusy /\ DepotProgress /\ DepotApplied /\ ProviderProgress
    BY DEF SupplyInit, DepotInit, WorkersBusy, DepotProgress, DepotApplied, DepotRests, ProviderProgress
  <1>3. NothingStale
    BY NoVersionOK DEF SupplyInit, NothingStale, Lasting
  <1>4. QED
    BY <1>1, <1>2, <1>3 DEF SupplyInv

LEMMA SupplyStep ==
  ASSUME SupplyInv, [SupplyNext]_supplyVars
  PROVE  SupplyInv'
  <1>1. CASE UNCHANGED supplyVars
    <2>1. /\ UNCHANGED <<depot, releases, dqueue, dpc, dlocal, dbudget, resource>>
          /\ UNCHANGED <<version, pqueue, ppc, plocal>>
      BY <1>1 DEF supplyVars, depotVars, providerVars
    <2>2. SupplyTypeOK' /\ WorkersBusy'
      BY <2>1 DEF SupplyInv, SupplyTypeOK, WorkersBusy
    <2>3. \A r : ~ProviderChanged(r, r)
      BY DEF ProviderChanged
    <2>4. QED
      BY <2>1, <2>2, <2>3, DepotKept, ProviderKept DEF SupplyInv
  <1>2. CASE SupplyNext
    BY <1>2, DepotSiding, ProviderReconciling, Forcing, Trimming, Reading, Writing, Noting,
       Listing, Deleting, Interrupting, Syncing DEF SupplyNext, ProviderStep
  <1>3. QED
    BY <1>1, <1>2

-----------------------------------------------------------------------------
\* What the Depot writes, and what stays

\* The inductive invariant of the two controllers holds in every reachable state.
THEOREM SupplyInvariance == SupplySpec => []SupplyInv
  <1>1. SupplyInit => SupplyInv
    BY SupplyStart
  <1>2. SupplyInv /\ [SupplyNext]_supplyVars => SupplyInv'
    BY SupplyStep
  <1>3. QED
    BY <1>1, <1>2, PTL DEF SupplySpec

\* For every Depot, whatever is edited, published or interrupted while its
\* controller runs: when it rests, every configured resource carries the last
\* config of its name, with what the global config adds, and the status names it.
THEOREM DepotIsApplied == SupplySpec => []DepotApplied
  <1>1. SupplyInv => DepotApplied
    BY DEF SupplyInv
  <1>2. QED
    BY SupplyInvariance, <1>1, PTL

\* For every list of versions and platforms: when the Provider controller is done
\* with a Provider labelled with its own name, no Version stays that its spec does
\* not ask for.
THEOREM NoVersionIsStale == SupplySpec => []NothingStale
  <1>1. SupplyInv => NothingStale
    BY DEF SupplyInv
  <1>2. QED
    BY SupplyInvariance, <1>1, PTL

-----------------------------------------------------------------------------
\* Lists of versions and the limit

\* A list with more versions has no more room.
LEMMA OutSuperset ==
  ASSUME NEW T, IsFiniteSet(T), NEW S \in SUBSET T, NEW v, NEW limit \in Nat, Out(v, S, limit)
  PROVE  Out(v, T, limit)
  <1> DEFINE above(R) == {w \in R : w > v}
  <1>1. above(T) \in SUBSET T /\ above(S) \in SUBSET above(T)
    OBVIOUS
  <1>2. above(S) = {w \in S : w > v} /\ above(T) = {w \in T : w > v}
    OBVIOUS
  <1> HIDE DEF above
  <1>3. IsFiniteSet(above(T)) /\ IsFiniteSet(above(S)) /\ Cardinality(above(S)) <= Cardinality(above(T))
    BY <1>1, FS_Subset
  <1>4. Cardinality(above(S)) \in Nat /\ Cardinality(above(T)) \in Nat
    BY <1>3, FS_CardinalityType
  <1>5. limit > 0 /\ Cardinality(above(S)) >= limit
    BY <1>2 DEF Out
  <1>6. Cardinality(above(T)) >= limit
    BY <1>3, <1>4, <1>5
  <1>7. QED
    BY <1>2, <1>5, <1>6 DEF Out

\* A version for which another one leaves no room has no room either.
LEMMA OutBelow ==
  ASSUME NEW T \in SUBSET Nat, IsFiniteSet(T), NEW v \in Nat, NEW w \in Nat, w > v,
         NEW limit \in Nat, Out(w, T, limit)
  PROVE  Out(v, T, limit)
  <1> DEFINE above(x) == {y \in T : y > x}
  <1>0. \A y \in T : y > w => y > v
    OBVIOUS
  <1>1. above(v) \in SUBSET T /\ above(w) \in SUBSET above(v)
    BY <1>0, Zenon
  <1>2. above(v) = {y \in T : y > v} /\ above(w) = {y \in T : y > w}
    OBVIOUS
  <1> HIDE DEF above
  <1>3. IsFiniteSet(above(v)) /\ IsFiniteSet(above(w)) /\ Cardinality(above(w)) <= Cardinality(above(v))
    BY <1>1, FS_Subset
  <1>4. Cardinality(above(v)) \in Nat /\ Cardinality(above(w)) \in Nat
    BY <1>3, FS_CardinalityType
  <1>5. limit > 0 /\ Cardinality(above(w)) >= limit
    BY <1>2 DEF Out
  <1>6. Cardinality(above(v)) >= limit
    BY <1>3, <1>4, <1>5
  <1>7. QED
    BY <1>2, <1>5, <1>6 DEF Out

\* If everything in a list is in a second one, or has no room there, then so has a
\* version that has no room in the first one.
LEMMA OutThrough ==
  ASSUME NEW S \in SUBSET Nat, NEW T \in SUBSET Nat, IsFiniteSet(T), NEW v \in Nat, NEW limit \in Nat,
         Out(v, S, limit), \A w \in S : Below(w, T, limit)
  PROVE  Out(v, T, limit)
  <1> DEFINE above == {w \in S : w > v}
  <1>1. CASE above \subseteq T
    <2>1. {w \in above : w > v} = above
      OBVIOUS
    <2>2. Out(v, above, limit)
      BY <2>1 DEF Out
    <2> HIDE DEF above
    <2>3. QED
      BY <1>1, <2>2, OutSuperset
  <1>2. CASE ~(above \subseteq T)
    <2>1. PICK w \in S : w > v /\ w \notin T
      BY <1>2
    <2>2. Out(w, T, limit)
      BY <2>1 DEF Below
    <2>3. QED
      BY <2>1, <2>2, OutBelow
  <1>3. QED
    BY <1>1, <1>2

\* A list within the limit has room for each of its versions.
LEMMA ListedIsIn ==
  ASSUME NEW S \in SUBSET Nat, IsFiniteSet(S), NEW v \in S, NEW limit \in Nat,
         ~(0 < limit /\ limit < Cardinality(S))
  PROVE  ~Out(v, S, limit)
  <1> DEFINE above == {w \in S : w > v}
  <1>0. \A w \in S : w > v => w # v
    OBVIOUS
  <1>1. above \in SUBSET (S \ {v})
    BY <1>0, Zenon
  <1>2. IsFiniteSet(S \ {v}) /\ Cardinality(S \ {v}) = Cardinality(S) - 1
    BY FS_RemoveElement
  <1>3. Cardinality(S) \in Nat
    BY FS_CardinalityType
  <1>4. Out(v, S, limit) => limit > 0 /\ Cardinality(above) >= limit
    BY DEF Out
  <1> HIDE DEF above
  <1>5. IsFiniteSet(above) /\ Cardinality(above) <= Cardinality(S) - 1
    BY <1>1, <1>2, FS_Subset
  <1>6. Cardinality(above) \in Nat
    BY <1>5, FS_CardinalityType
  <1>7. QED
    BY <1>3, <1>4, <1>5, <1>6

\* Each version of a finite list has its rank, counted from above.
LEMMA RanksNumbered ==
  ASSUME NEW S \in SUBSET Nat, IsFiniteSet(S)
  PROVE  [v \in S |-> Cardinality({w \in S : w > v})] \in Bijection(S, 0..(Cardinality(S) - 1))
  <1> DEFINE above(v) == {w \in S : w > v}
             n == Cardinality(S)
             T == 0..(n - 1)
             rank == [v \in S |-> Cardinality(above(v))]
  <1>1. n \in Nat
    BY FS_CardinalityType
  <1>2. ASSUME NEW v \in S PROVE IsFiniteSet(above(v)) /\ Cardinality(above(v)) \in T
    <2>0. \A w \in S : w > v => w # v
      OBVIOUS
    <2>1. above(v) \in SUBSET (S \ {v})
      BY <2>0, Zenon
    <2>2. IsFiniteSet(S \ {v}) /\ Cardinality(S \ {v}) = n - 1
      BY FS_RemoveElement
    <2> HIDE DEF above, n
    <2>3. IsFiniteSet(above(v)) /\ Cardinality(above(v)) <= n - 1
      BY <2>1, <2>2, FS_Subset
    <2>4. QED
      BY <1>1, <2>3, FS_CardinalityType
  <1>3. ASSUME NEW v \in S, NEW x \in S, v > x PROVE Cardinality(above(v)) # Cardinality(above(x))
    <2>1. (\A w \in S : w > v => w > x) /\ ~(v > v)
      BY <1>3
    <2>2. above(v) \in SUBSET above(x) /\ v \in above(x) /\ v \notin above(v)
      BY <1>3, <2>1, Zenon
    <2>3. above(v) # above(x)
      BY <2>2
    <2> HIDE DEF above
    <2>4. QED
      BY <1>2, <2>2, <2>3, FS_Subset
  <1>4. ASSUME NEW v \in S, NEW x \in S, v # x PROVE Cardinality(above(v)) # Cardinality(above(x))
    <2>1. v > x \/ x > v
      BY <1>4
    <2> HIDE DEF above
    <2>2. QED
      BY <1>3, <2>1
  <1>5. rank \in [S -> T] /\ \A v, x \in S : rank[v] = rank[x] => v = x
    <2> HIDE DEF above, T
    <2>1. QED
      BY <1>2, <1>4
  <1> HIDE DEF rank
  <1>6. rank \in Injection(S, T)
    BY <1>5 DEF Injection, IsInjective
  <1>7. IsFiniteSet(T) /\ Cardinality(T) = n
    <2> HIDE DEF n
    <2>1. n \in Int /\ n - 1 \in Int /\ 0 \in Int
      BY <1>1
    <2>2. QED
      BY ONLY <1>1, <2>1, FS_Interval, SMT
  <1>8. rank \in Surjection(S, T)
    <2> HIDE DEF T
    <2>1. Cardinality(S) = Cardinality(T)
      BY <1>7
    <2>2. QED
      BY <1>6, <1>7, <2>1, FS_Injection
  <1>9. rank \in Bijection(S, T)
    BY <1>6, <1>8 DEF Bijection
  <1>10. QED
    BY <1>9 DEF rank, T, n

\* Trimming leaves as many versions as the limit says.
LEMMA KeptIsFull ==
  ASSUME NEW S \in SUBSET Nat, IsFiniteSet(S), NEW limit \in Nat, limit > 0, limit < Cardinality(S)
  PROVE  /\ Newest(S, limit) \in SUBSET S
         /\ IsFiniteSet(Newest(S, limit)) /\ Cardinality(Newest(S, limit)) = limit
  <1> DEFINE rank == [v \in S |-> Cardinality({w \in S : w > v})]
             N    == Newest(S, limit)
             T    == 0..(limit - 1)
             num  == [v \in N |-> rank[v]]
             all  == 0..(Cardinality(S) - 1)
  <1>1. N \in SUBSET S /\ \A v \in S : v \in N <=> rank[v] < limit
    BY DEF Newest
  <1>2. rank \in Bijection(S, all)
    BY RanksNumbered
  <1>3. Cardinality(S) \in Nat
    BY FS_CardinalityType
  <1> HIDE DEF rank, N
  <1>4. IsFiniteSet(N)
    BY <1>1, FS_Subset
  <1>5. num \in Injection(N, T)
    <2>1. rank \in [S -> all] /\ \A v, x \in S : rank[v] = rank[x] => v = x
      BY <1>2 DEF Bijection, Injection, IsInjective
    <2>2. \A v \in N : rank[v] \in T
      BY <1>1, <1>3, <2>1
    <2>3. num \in [N -> T] /\ \A v, x \in N : num[v] = num[x] => v = x
      <3> HIDE DEF T, all
      <3>1. QED
        BY <1>1, <2>1, <2>2
    <2> HIDE DEF num, T
    <2>4. QED
      BY <2>3 DEF Injection, IsInjective
  <1>6. num \in Surjection(N, T)
    <2>1. \A m \in all : \E v \in S : rank[v] = m
      BY <1>2 DEF Bijection, Surjection
    <2>2. \A m \in T : m \in all /\ m < limit
      BY <1>3
    <2>3. \A m \in T : \E v \in N : num[v] = m
      <3> HIDE DEF all, T
      <3>1. QED
        BY <1>1, <2>1, <2>2
    <2> HIDE DEF num, T
    <2>4. QED
      BY <1>5, <2>3 DEF Injection, Surjection
  <1>7. IsFiniteSet(T) /\ Cardinality(T) = limit
    <2>1. limit - 1 \in Int /\ 0 \in Int
      OBVIOUS
    <2>2. QED
      BY ONLY limit \in Nat, limit > 0, <2>1, FS_Interval, SMT
  <1>8. Cardinality(T) = Cardinality(N)
    <2> HIDE DEF num, T
    <2>1. Cardinality(N) = Cardinality(T)
      BY <1>5, <1>6, <1>7, FS_Injection
    <2>2. QED
      BY <2>1
  <1>9. QED
    BY <1>1, <1>4, <1>7, <1>8 DEF N

\* What has no room in a list has none in what trimming leaves of it, nor has what
\* the trimming took away.
LEMMA KeptBelow ==
  ASSUME NEW S \in SUBSET Nat, IsFiniteSet(S), NEW limit \in Nat, limit > 0, limit < Cardinality(S),
         NEW v \in Nat, \/ Out(v, S, limit)
                        \/ v \in S /\ v \notin Newest(S, limit)
  PROVE  Out(v, Newest(S, limit), limit)
  <1> DEFINE N == Newest(S, limit)
             above(x) == {w \in S : w > x}
  <1>0. \A x \in S : IsFiniteSet(above(x)) /\ Cardinality(above(x)) \in Nat
    <2> SUFFICES ASSUME NEW x \in S PROVE IsFiniteSet(above(x)) /\ Cardinality(above(x)) \in Nat
      OBVIOUS
    <2>1. above(x) \in SUBSET S
      OBVIOUS
    <2> HIDE DEF above
    <2>2. QED
      BY <2>1, FS_Subset, FS_CardinalityType
  <1>1. IsFiniteSet(above(v)) /\ Cardinality(above(v)) \in Nat
    <2>1. above(v) \in SUBSET S
      OBVIOUS
    <2> HIDE DEF above
    <2>2. QED
      BY <2>1, FS_Subset, FS_CardinalityType
  <1>2. Cardinality(above(v)) >= limit
    <2>1. CASE Out(v, S, limit)
      BY <2>1 DEF Out
    <2>2. CASE v \in S /\ v \notin Newest(S, limit)
      <3>1. ~(Cardinality(above(v)) < limit)
        BY <2>2 DEF Newest
      <3> HIDE DEF above
      <3>2. QED
        BY <1>1, <3>1
    <2>3. QED
      BY <2>1, <2>2
  <1>3. ASSUME NEW w \in N PROVE w > v
    <2>1. w \in S /\ Cardinality(above(w)) < limit
      BY <1>3 DEF Newest
    <2>2. SUFFICES ASSUME ~(w > v) PROVE FALSE
      OBVIOUS
    <2>3. \A x \in S : x > v => x > w
      BY <2>1, <2>2
    <2>4. above(v) \in SUBSET above(w)
      BY <2>3, Zenon
    <2> HIDE DEF above
    <2>5. Cardinality(above(v)) <= Cardinality(above(w))
      BY <1>0, <2>1, <2>4, FS_Subset
    <2>6. QED
      BY <1>0, <1>1, <1>2, <2>1, <2>5
  <1>4. {w \in N : w > v} = N
    BY <1>3
  <1>5. Cardinality(N) = limit
    BY KeptIsFull
  <1> HIDE DEF N
  <1>6. Out(v, N, limit)
    BY <1>4, <1>5 DEF Out
  <1>7. QED
    BY <1>6 DEF N
-----------------------------------------------------------------------------
\* What the invariant behind VersionsMatchProvider says

LEMMA PublishedOK ==
  ASSUME SupplyInv, NEW n \in Provider
  PROVE  IsFiniteSet(Published(n)) /\ Published(n) \in SUBSET Nat
  <1> DEFINE D == DOMAIN releases[n]
             f == [i \in D |-> TagNumber[releases[n][i]]]
             P == Published(n)
  <1>1. releases[n] \in Seq(Tag)
    BY DEF SupplyInv, SupplyTypeOK, Resource
  <1>2. D = 1..Len(releases[n]) /\ Len(releases[n]) \in Nat /\ \A i \in D : releases[n][i] \in Tag
    BY <1>1
  <1>3. P = {TagNumber[releases[n][i]] : i \in D} /\ P \in SUBSET Nat
    <2>1. \A i \in D : TagNumber[releases[n][i]] \in Nat
      BY <1>2, DepotConstants
    <2>2. P = {TagNumber[releases[n][i]] : i \in D}
      BY DEF Published
    <2> HIDE DEF D, P
    <2>3. QED
      BY <2>1, <2>2
  <1>4. IsFiniteSet(D)
    BY <1>2, FS_Interval
  <1>5. f \in Surjection(D, P)
    <2> HIDE DEF D, P
    <2>1. QED
      BY <1>3 DEF Surjection
  <1> HIDE DEF f, D, P
  <1>6. IsFiniteSet(P)
    BY <1>4, <1>5, FS_Surjection
  <1>7. QED
    BY <1>3, <1>6 DEF P

\* The lists of a Provider are finite, and so are the ones that may come.
LEMMA ListsOK ==
  ASSUME SupplyInv, NEW n \in Provider, Listed(n)
  PROVE  /\ \A list \in Lists(n) : list \in SUBSET Nat /\ IsFiniteSet(list) /\ list \subseteq Known(n)
         /\ \A list \in SUBSET Published(n) : list \in SUBSET Nat /\ IsFiniteSet(list)
         /\ \A k \in Owned(n) : k[2] \in Nat /\ k[2] \in Known(n)
  <1>1. \A list \in SUBSET Published(n) : list \in SUBSET Nat /\ IsFiniteSet(list)
    BY PublishedOK, FS_Subset
  <1>2. \A list \in Lists(n) : list \subseteq Known(n)
    BY DEF Lists, Known
  <1>3. Known(n) \subseteq Published(n)
    BY DEF Listed
  <1>4. \A k \in Owned(n) : k[2] \in Known(n)
    BY DEF Known
  <1>5. QED
    BY <1>1, <1>2, <1>3, <1>4

LEMMA LimitOK ==
  ASSUME SupplyInv, NEW n \in Provider, resource[n].exists
  PROVE  resource[n].config \in DepotConfig /\ resource[n].config.limit \in Nat
  BY DEF SupplyInv, SupplyTypeOK, ResourceOK, Resource, DepotConfig

\* A round without anything to trim and without an error has a limit that fits.
LEMMA CheckedLimit ==
  ASSUME NEW p, Check(p) = "loop"
  PROVE  ~(0 < p.config.limit /\ p.config.limit < Cardinality(p.versions))
  BY DEF Check

LEMMA SpecKept ==
  ASSUME NEW n, NEW p, NEW q, SameSpec(p, q)
  PROVE  Check(p) = Check(q) /\ Desired(n, p) = Desired(n, q)
  BY DEF SameSpec, Check, Desired

\* What rests is even: the listed Versions are there, and no other one.
LEMMA RestIsEven ==
  ASSUME MatchInv, OwnLabels, AllRest, NEW n \in Provider, resource[n].exists
  PROVE  Even(n)
  <1>1. n \notin pqueue /\ ~Working(n) /\ \A k \in Key : ~version[k].queued
    BY DEF AllRest, Working
  <1>2. /\ Check(resource[n]) = "loop"
        /\ \A k \in Desired(n, resource[n]) : version[k].exists /\ ~version[k].deleting
    BY <1>1 DEF MatchInv, OnTheWay, Supplied
  <1>3. Lasting(n) \subseteq Desired(n, resource[n])
    BY <1>1 DEF MatchInv, SupplyInv, NothingStale, OwnLabels, Working
  <1>4. Owned(n) \subseteq Lasting(n)
    BY <1>1 DEF MatchInv, VersionsOwned, Owned, Lasting
  <1>5. ResourceOK(n, resource[n])
    BY DEF MatchInv, SupplyInv, SupplyTypeOK, Resource
  <1>6. Desired(n, resource[n]) \subseteq {n} \X Number \X Platform /\ Desired(n, resource[n]) \subseteq Key
    BY <1>5, DesiredOK
  <1>7. Desired(n, resource[n]) \subseteq Owned(n)
    BY <1>2, <1>6 DEF Owned
  <1>8. QED
    BY <1>1, <1>2, <1>3, <1>4, <1>7 DEF Even, Has

-----------------------------------------------------------------------------
\* What a step leaves alone, between two edits

\* A Provider whose spec and Versions stay as they are, except for what terminates,
\* stays on the way.
LEMMA Unmoved ==
  ASSUME MatchInv, NEW n \in Provider,
         resource'[n].exists = resource[n].exists, SameSpec(resource'[n], resource[n]),
         Published(n) \subseteq Published(n)',
         depot'.spec = depot.spec, depot'.exists => depot.exists,
         n \in pqueue => n \in pqueue',
         \A k \in Key : k[1] = n =>
             /\ version'[k].exists => version[k].exists
             /\ version[k].exists /\ ~version[k].deleting => version'[k].exists /\ ~version'[k].deleting
             /\ Gone(k)' => Gone(k),
         Working(n)' => /\ Working(n) /\ plocal'.provider = plocal.provider
                        /\ plocal'.desired = plocal.desired
                        /\ ppc' \in {"trim", "delete"} => ppc' = ppc,
         Working(n) /\ ~Working(n)' =>
             \/ n \in pqueue'
             \/ /\ Check(resource[n]) = "loop"
                /\ \A k \in Desired(n, resource[n]) : version[k].exists /\ ~version[k].deleting
  PROVE  OnTheWay(n)' /\ Known(n)' \subseteq Known(n)
  <1>0. OnTheWay(n) /\ ResourceOK(n, resource[n])
    BY DEF MatchInv, SupplyInv, SupplyTypeOK, Resource
  <1>1. Owned(n)' \subseteq Owned(n) /\ \A k \in Owned(n) : ~version[k].deleting => k \in Owned(n)'
    BY DEF Owned
  <1>2. Known(n)' \subseteq Known(n)
    BY <1>1 DEF Known, SameSpec
  <1>3. Check(resource'[n]) = Check(resource[n]) /\ Desired(n, resource'[n]) = Desired(n, resource[n])
    BY SpecKept
  <1>4. resource[n].exists => Desired(n, resource[n]) \subseteq Key /\ \A k \in Desired(n, resource[n]) : k[1] = n
    BY <1>0, DesiredOK
  <1>5. Listed(n)'
    BY <1>0, <1>2 DEF OnTheWay, Listed, SameSpec
  <1>6. ASSUME NEW asked, Has(n, asked) PROVE Owned(n)' = asked /\ \A k \in asked : ~version'[k].deleting
    BY <1>1, <1>6 DEF Has, Owned
  <1>7. Waiting(n)'
    <2>1. Agreed(n) => Agreed(n)'
      BY DEF Agreed, SameSpec
    <2>2. Even(n) => Even(n)'
      BY <1>3, <1>6 DEF Even, Has, SameSpec
    <2>3. Working(n)' /\ plocal'.provider.config # resource'[n].config =>
              Has(n, plocal.desired)' /\ ppc' \notin {"trim", "delete"}
      BY <1>0, <1>6 DEF OnTheWay, Waiting, Has, SameSpec
    <2>4. QED
      BY <1>0, <2>1, <2>2, <2>3 DEF OnTheWay, Waiting
  <1>8. Ordered(n)'
    <2>1. Lists(n)' \subseteq Lists(n)
      BY DEF Lists, SameSpec
    <2>2. QED
      BY <1>0, <1>1, <2>1 DEF OnTheWay, Ordered, SameSpec
  <1>9. Supplied(n)'
    BY <1>0, <1>3, <1>4 DEF OnTheWay, Supplied
  <1>10. QED
    BY <1>2, <1>5, <1>7, <1>8, <1>9 DEF OnTheWay

\* The worker of the Depot hears of nothing new.
LEMMA HeardOn ==
  ASSUME MatchInv, UNCHANGED <<dpc, dlocal, releases>>, \A n \in Provider : Known(n)' \subseteq Known(n)
  PROVE  DepotKnows'
  <1>1. \A n : Published(n)' = Published(n)
    BY DEF Published
  <1>2. QED
    BY <1>1 DEF MatchInv, DepotKnows

\* A round of the Provider controller goes on beside other steps.
LEMMA RoundOn ==
  ASSUME MatchInv, UNCHANGED <<ppc, plocal>>, pqueue \subseteq pqueue',
         ppc # "idle" /\ plocal.name \notin pqueue' => SameSpec(resource'[plocal.name], resource[plocal.name]),
         \A k \in Key : version[k].exists /\ ~version[k].deleting => version'[k].exists /\ ~version'[k].deleting
  PROVE  RoundKnows'
  <1> SUFFICES ASSUME ppc # "idle" PROVE RoundKnows'
    BY DEF RoundKnows
  <1>1. plocal.desired \subseteq Key
    <2>1. plocal.name \in Provider /\ plocal.desired \subseteq {plocal.name} \X Number \X Platform
      BY DEF MatchInv, SupplyInv, SupplyTypeOK, WorkersBusy
    <2>2. QED
      BY <2>1 DEF Key
  <1>2. plocal.name \notin pqueue' => SameSpec(plocal.provider, resource'[plocal.name])
    BY DEF MatchInv, RoundKnows, SameSpec
  <1>3. QED
    BY <1>1, <1>2 DEF MatchInv, RoundKnows
-----------------------------------------------------------------------------
\* Steps of the Depot controller, and the Versions

\* A step that writes no resource and edits no Depot.
LEMMA DepotPassing ==
  ASSUME MatchInv, UNCHANGED <<resource, version, pqueue, ppc, plocal>>,
         depot'.spec = depot.spec, depot'.exists => depot.exists,
         \A n \in Provider : Published(n) \subseteq Published(n)'
  PROVE  /\ VersionsOwned' /\ RoundKnows'
         /\ \A n \in Provider : OnTheWay(n)' /\ Known(n)' = Known(n)
  <1>1. VersionsOwned'
    BY DEF MatchInv, VersionsOwned
  <1>2. \A p : SameSpec(p, p)
    BY DEF SameSpec
  <1>3. RoundKnows'
    BY <1>2, RoundOn
  <1>4. ASSUME NEW n \in Provider PROVE OnTheWay(n)'
    <2>1. \A k \in Key : Gone(k)' => Gone(k)
      BY DEF Gone
    <2>2. Working(n)' = Working(n)
      BY DEF Working
    <2>3. QED
      BY <1>2, <2>1, <2>2, Unmoved
  <1>5. \A n : Known(n)' = Known(n)
    BY DEF Known, Owned, Working
  <1>6. QED
    BY <1>1, <1>3, <1>4, <1>5

\* An edit of a patient operator.
LEMMA DepotEdited ==
  ASSUME MatchInv, OwnLabels, AllRest,
         UNCHANGED <<resource, version, releases, dpc, dlocal, pqueue, ppc, plocal>>
  PROVE  /\ VersionsOwned' /\ RoundKnows' /\ DepotKnows'
         /\ \A n \in Provider : OnTheWay(n)'
  <1>1. VersionsOwned'
    BY DEF MatchInv, VersionsOwned
  <1>2. RoundKnows' /\ DepotKnows'
    BY DEF AllRest, DepotRests, RoundKnows, DepotKnows
  <1>3. ASSUME NEW n \in Provider PROVE OnTheWay(n)'
    <2>1. OnTheWay(n)
      BY DEF MatchInv
    <2>2. resource[n].exists => Even(n)
      BY RestIsEven
    <2>3. Even(n)' = Even(n)
      BY DEF Even, Has, Owned, Working
    <2>4. Waiting(n)'
      BY <2>2, <2>3 DEF Waiting, Working, AllRest
    <2>5. Listed(n)' /\ Ordered(n)' /\ Supplied(n)'
      BY <2>1 DEF OnTheWay, Listed, Known, Published, Ordered, Lists, Gone, Supplied, Owned, Working
    <2>6. QED
      BY <2>4, <2>5 DEF OnTheWay
  <1>4. QED
    BY <1>1, <1>2, <1>3

\* A registry answers with all the releases of a provider at once.
LEMMA WholePage ==
  ASSUME SupplyInv, NEW n \in Provider, NEW page
  PROVE  /\ n \notin Module
         /\ \A c : Matching(Page(n, page), c) = Published(n) \cap c.accepts
  <1>1. n \notin Module
    BY DepotConstants
  <1>2. releases[n] \in Seq(Tag)
    BY DEF SupplyInv, SupplyTypeOK, Resource
  <1>3. {j \in DOMAIN releases[n] : 0 < j /\ j <= Len(releases[n])} = DOMAIN releases[n]
    BY <1>2
  <1>4. Page(n, page) = {releases[n][i] : i \in DOMAIN releases[n]}
    BY <1>1, <1>3 DEF Page
  <1>5. \A c : Matching(Page(n, page), c) = Published(n) \cap c.accepts
    BY <1>4 DEF Matching, Published
  <1>6. QED
    BY <1>1, <1>5

LEMMA MatchListing ==
  ASSUME MatchInv, ListReleases, \A n \in Provider : Known(n)' = Known(n)
  PROVE  DepotKnows'
  <1>0. PICK c : c = Head(dlocal.todo)
    OBVIOUS
  <1> DEFINE all == dlocal.matched \cup Matching(Page(c.name, dlocal.page), c)
  <1>1. dlocal \in DepotLocal
    BY DEF MatchInv, SupplyInv, SupplyTypeOK
  <1>2. dlocal'.todo = dlocal.todo /\ dlocal'.matched = all
    BY <1>0, <1>1 DEF ListReleases, DepotLocal
  <1>3. dpc = "list" /\ UNCHANGED releases
    BY DEF ListReleases
  <1> HIDE DEF all
  <1> SUFFICES ASSUME c.name \in Provider
               PROVE  /\ all \subseteq Published(c.name)' \cap c.accepts
                      /\ Known(c.name)' \cap c.accepts \subseteq all
    BY <1>0, <1>2 DEF DepotKnows
  <1>4. Matching(Page(c.name, dlocal.page), c) = Published(c.name) \cap c.accepts
    BY WholePage DEF MatchInv
  <1>5. dlocal.matched \subseteq Published(c.name) \cap c.accepts
    BY <1>0, <1>3 DEF MatchInv, DepotKnows
  <1>6. Known(c.name) \subseteq Published(c.name)
    BY DEF MatchInv, OnTheWay, Listed
  <1>7. Published(c.name)' = Published(c.name)
    BY <1>3 DEF Published
  <1>8. QED
    BY <1>4, <1>5, <1>6, <1>7 DEF all

\* What the Depot writes reaches a Provider: more than it knew of, and perhaps
\* another config.
LEMMA WriteReaches ==
  ASSUME MatchInv, NEW n \in Provider, NEW c \in DepotConfig, NEW list,
         resource'[n].exists, resource'[n].config = c, resource'[n].versions = list,
         list \subseteq Published(n) \cap c.accepts, Known(n) \cap c.accepts \subseteq list,
         Agreed(n)', Agreed(n) => resource[n].config = c,
         UNCHANGED <<version, releases, ppc, plocal>>,
         pqueue \subseteq pqueue', ProviderChanged(resource[n], resource'[n]) => n \in pqueue'
  PROVE  OnTheWay(n)'
  <1>0. OnTheWay(n) /\ SupplyInv
    BY DEF MatchInv
  <1>1. /\ Owned(n)' = Owned(n) /\ Published(n)' = Published(n) /\ Working(n)' = Working(n)
        /\ \A k : Gone(k)' = Gone(k)
    BY DEF Owned, Published, Working, Gone
  <1>2. /\ \A l \in Lists(n) : l \in SUBSET Nat /\ IsFiniteSet(l) /\ l \subseteq Known(n)
        /\ list \in SUBSET Nat /\ IsFiniteSet(list)
        /\ \A k \in Owned(n) : k[2] \in Nat /\ k[2] \in Known(n)
    <2>1. list \in SUBSET Published(n)
      OBVIOUS
    <2>2. QED
      BY <1>0, <2>1, ListsOK DEF OnTheWay
  <1>3. Lists(n)' \subseteq {list} \cup {l \in {plocal.provider.versions} : Working(n) /\ plocal.provider.config = c}
    BY <1>1 DEF Lists
  <1>4. c.limit \in Nat
    BY DEF DepotConfig
  <1>5. Listed(n)'
    <2>1. Known(n)' \subseteq Known(n) \cup list
      BY <1>1 DEF Known
    <2>2. QED
      BY <1>0, <1>1, <2>1 DEF OnTheWay, Listed
  <1>6. CASE ~resource[n].exists
    <2>1. ~Working(n) /\ n \in pqueue'
      BY <1>0, <1>6 DEF Working, SupplyInv, WorkersBusy, ProviderChanged
    <2>2. \A k \in Key : k[1] = n => version[k] = NoVersion
      BY <1>6 DEF MatchInv, VersionsOwned
    <2>3. Owned(n) = {} /\ \A k \in Key : k[1] = n => ~Gone(k)
      BY <2>1, <2>2 DEF Owned, Gone, NoVersion, MatchInv, RoundKnows, Working
    <2>4. Lists(n)' = {list}
      BY <1>1, <2>1 DEF Lists
    <2>5. Ordered(n)'
      BY <1>1, <2>3, <2>4 DEF Ordered, Below
    <2>6. Waiting(n)' /\ Supplied(n)'
      BY <1>1, <2>1 DEF Waiting, Supplied
    <2>7. QED
      BY <1>5, <2>5, <2>6 DEF OnTheWay
  <1>7. CASE resource[n].exists /\ resource[n].config = c
    <2>1. Waiting(n)'
      BY <1>0, <1>1, <1>7 DEF OnTheWay, Waiting, Has
    <2>2. resource[n].versions \in Lists(n) /\ resource[n].versions \subseteq list
      BY <1>0, <1>2, <1>7 DEF OnTheWay, Listed, Lists
    <2>3. ASSUME NEW l \in Lists(n)'
          PROVE  /\ \A k \in Owned(n) : k[2] \in c.accepts => Below(k[2], l, c.limit)
                 /\ \A k \in Key : k[1] = n /\ Gone(k) /\ k[2] \in c.accepts /\ k[3] \in c.platforms =>
                        Out(k[2], l, c.limit)
                 /\ \A v \in l : Below(v, list, c.limit)
      <3>1. CASE l = list
        <4>1. \A k \in Owned(n) : k[2] \in c.accepts => Below(k[2], l, c.limit)
          BY <1>2, <3>1 DEF Below
        <4>2. ASSUME NEW k \in Key, k[1] = n, Gone(k), k[2] \in c.accepts, k[3] \in c.platforms
              PROVE  Out(k[2], l, c.limit)
          <5>1. Out(k[2], resource[n].versions, c.limit)
            BY <1>0, <1>7, <2>2, <4>2 DEF OnTheWay, Ordered
          <5>2. QED
            BY <1>2, <1>4, <2>2, <3>1, <5>1, OutSuperset
        <4>3. QED
          BY <3>1, <4>1, <4>2 DEF Below
      <3>2. CASE l = plocal.provider.versions /\ Working(n) /\ plocal.provider.config = c
        <4>1. l \in Lists(n) /\ l \subseteq list
          BY <1>0, <1>2, <1>7, <3>2 DEF Lists, OnTheWay, Listed
        <4>2. QED
          BY <1>0, <1>7, <4>1 DEF OnTheWay, Ordered, Below
      <3>3. QED
        BY <1>3, <3>1, <3>2
    <2>4. Ordered(n)'
      BY <1>1, <2>3 DEF Ordered
    <2>5. Supplied(n)'
      <3> SUFFICES ASSUME n \notin pqueue', ~Working(n) PROVE Supplied(n)'
        BY <1>1 DEF Supplied
      <3>1. SameSpec(resource'[n], resource[n])
        BY DEF ProviderChanged, SameSpec
      <3>2. QED
        BY <1>0, <1>7, <3>1, SpecKept DEF OnTheWay, Supplied
    <2>6. QED
      BY <1>5, <2>1, <2>4, <2>5 DEF OnTheWay
  <1>8. CASE resource[n].exists /\ resource[n].config # c
    <2>1. Even(n)
      BY <1>0, <1>8 DEF OnTheWay, Waiting
    <2>2. n \in pqueue'
      BY <1>8 DEF ProviderChanged
    <2>3. Lists(n)' = {list}
      BY <1>1, <1>8, <2>1 DEF Lists, Even, SameSpec
    <2>4. \A k \in Key : k[1] = n => ~Gone(k)
      <3>1. \A k \in Key : k[1] = n => ~version[k].deleting
        BY <2>1 DEF Even, Has, Owned, MatchInv, VersionsOwned, NoVersion
      <3>2. \A k \in Key : k[1] = n => ~(ppc = "delete" /\ k \in plocal.doomed)
        BY <2>1 DEF Even, Working, MatchInv, RoundKnows
      <3>3. QED
        BY <3>1, <3>2 DEF Gone
    <2>5. Ordered(n)'
      BY <1>1, <1>2, <2>3, <2>4 DEF Ordered, Below
    <2>6. Waiting(n)'
      <3>1. Working(n) => plocal.desired = Desired(n, resource[n]) /\ ppc \notin {"trim", "delete"}
        BY <2>1, SpecKept DEF Even, Working, MatchInv, RoundKnows
      <3>2. Working(n) => Has(n, plocal.desired)
        BY <2>1, <3>1 DEF Even
      <3>3. QED
        BY <1>1, <3>1, <3>2 DEF Waiting, Has
    <2>7. Supplied(n)'
      BY <2>2 DEF Supplied
    <2>8. QED
      BY <1>5, <2>5, <2>6, <2>7 DEF OnTheWay
  <1>9. QED
    BY <1>6, <1>7, <1>8

LEMMA MatchWriting ==
  ASSUME MatchInv, OneConfigEach, WriteResource, UNCHANGED <<version, ppc, plocal>>,
         resource[Head(dlocal.todo).name].exists = dlocal.found,
         pqueue' = pqueue \cup {n \in Provider : ProviderChanged(resource[n], resource'[n])}
  PROVE  /\ VersionsOwned' /\ RoundKnows' /\ DepotKnows'
         /\ \A n \in Provider : OnTheWay(n)'
  <1>0. PICK h : h = Head(dlocal.todo)
    OBVIOUS
  <1> DEFINE w == Written(h.name)
  <1>1. /\ dpc = "write" /\ dlocal.todo # <<>> /\ dlocal.todo \in Seq(DepotConfig)
        /\ dlocal \in DepotLocal /\ \A m \in Resource : ResourceOK(m, resource[m])
        /\ DOMAIN resource = Resource /\ depot.spec \in DepotSpec
    BY DEF WriteResource, MatchInv, SupplyInv, SupplyTypeOK, WorkersBusy, DepotLocal
  <1>2. h \in DepotConfig /\ h.name \in Resource
    <2>1. h \in DepotConfig
      BY <1>0, <1>1
    <2>2. QED
      BY <2>1 DEF DepotConfig
  <1>3. /\ resource' = [resource EXCEPT ![h.name] = w]
        /\ dlocal'.matched = {} /\ dpc' \in {"list", "status"}
        /\ UNCHANGED <<depot, releases>>
    BY <1>0, <1>1 DEF WriteResource, DRound, DepotLocal
  <1>4. w.exists /\ w.config = h /\ w.versions = dlocal.matched
    BY <1>0, <1>1, <1>2 DEF Written, ResourceOK, NoResource
  <1> HIDE DEF w
  <1>5. /\ resource'[h.name] = w
        /\ \A m \in Resource : m # h.name => resource'[m] = resource[m]
    BY <1>1, <1>2, <1>3
  <1>6. DepotKnows'
    BY <1>3 DEF DepotKnows
  <1>7. VersionsOwned'
    <2>1. \A m \in Provider : resource[m].exists => resource'[m].exists
      BY <1>4, <1>5 DEF Resource
    <2>2. \A k \in Key : k[1] \in Provider
      BY DEF Key
    <2>3. QED
      BY <2>1, <2>2 DEF MatchInv, VersionsOwned
  <1>8. RoundKnows'
    <2>1. ppc # "idle" => plocal.name \in Provider
      BY DEF MatchInv, SupplyInv, WorkersBusy
    <2>2. ppc # "idle" /\ plocal.name \notin pqueue' => SameSpec(resource'[plocal.name], resource[plocal.name])
      BY <2>1 DEF ProviderChanged, SameSpec
    <2>3. QED
      BY <2>2, RoundOn
  <1>9. ASSUME NEW n \in Provider, n # h.name PROVE OnTheWay(n)'
    <2>1. resource'[n] = resource[n]
      BY <1>5, <1>9 DEF Resource
    <2>2. Working(n)' = Working(n) /\ Published(n)' = Published(n) /\ \A k : Gone(k)' = Gone(k)
      BY <1>3 DEF Working, Published, Gone
    <2>3. SameSpec(resource'[n], resource[n])
      BY <2>1 DEF SameSpec
    <2>4. QED
      BY <1>3, <2>1, <2>2, <2>3, Unmoved
  <1>10. ASSUME NEW n \in Provider, n = h.name PROVE OnTheWay(n)'
    <2>1. depot.exists /\ h \in {Configs(depot.spec)[i] : i \in DOMAIN Configs(depot.spec)}
      <3> DEFINE c == Configs(depot.spec)
                 k == Len(dlocal.managed)
      <3>1. ~dqueue /\ depot.exists
        BY <1>1 DEF MatchInv, DepotPatient
      <3>2. Len(c) = k + Len(dlocal.todo) /\ \A i \in 1..Len(dlocal.todo) : dlocal.todo[i] = c[k + i]
        BY <1>1, <3>1 DEF MatchInv, SupplyInv, DepotProgress
      <3>3. c \in Seq(DepotConfig) /\ k \in Nat
        BY <1>1, ConfigsOK DEF DepotLocal
      <3> HIDE DEF c, k
      <3>4. Len(dlocal.todo) \in Nat /\ Len(dlocal.todo) > 0 /\ h = dlocal.todo[1]
        BY <1>0, <1>1
      <3>5. h = c[k + 1] /\ k + 1 \in 1..Len(c) /\ DOMAIN c = 1..Len(c)
        BY <3>2, <3>3, <3>4
      <3>6. QED
        BY <3>1, <3>5 DEF c
    <2>2. \A i \in DOMAIN Configs(depot.spec) : Configs(depot.spec)[i].name = n => Configs(depot.spec)[i] = h
      BY <1>10, <2>1 DEF OneConfigEach, MatchInv, DepotPatient
    <2>3. Agreed(n)' /\ (Agreed(n) => resource[n].config = h)
      BY <1>3, <1>4, <1>5, <1>10, <2>1, <2>2 DEF Agreed
    <2>4. /\ dlocal.matched \subseteq Published(n) \cap h.accepts
          /\ Known(n) \cap h.accepts \subseteq dlocal.matched
      BY <1>0, <1>1, <1>10 DEF MatchInv, DepotKnows
    <2>5. QED
      BY <1>2, <1>3, <1>4, <1>5, <1>10, <2>3, <2>4, WriteReaches
  <1>11. QED
    BY <1>6, <1>7, <1>8, <1>9, <1>10

LEMMA MatchDepot ==
  ASSUME MatchInv, PatientOperator, OwnLabels, OneConfigEach, DepotSide
  PROVE  MatchInv'
  <1>0. /\ SupplyInv' /\ SupplyInv
        /\ UNCHANGED <<version, ppc, plocal>>
        /\ pqueue' = pqueue \cup {n \in Provider : ProviderChanged(resource[n], resource'[n])}
    BY DepotSiding DEF MatchInv, DepotSide
  <1>1. UNCHANGED resource => pqueue' = pqueue
    BY <1>0 DEF ProviderChanged
  <1>2. UNCHANGED releases => \A n : Published(n)' = Published(n)
    BY DEF Published
  <1>3. ASSUME UNCHANGED <<resource, releases>>, depot'.spec = depot.spec, depot'.exists => depot.exists,
               dpc' # "idle" => ~dqueue' /\ depot'.exists,
               DepotKnows \/ dpc' \notin {"list", "get", "write"},
               dpc' \in {"list", "get", "write"} => UNCHANGED <<dpc, dlocal>>
        PROVE  MatchInv'
    <2>1. /\ VersionsOwned' /\ RoundKnows'
          /\ \A n \in Provider : OnTheWay(n)' /\ Known(n)' = Known(n)
      BY <1>0, <1>1, <1>2, <1>3, DepotPassing
    <2>2. DepotPatient'
      BY <1>3 DEF MatchInv, DepotPatient
    <2>3. DepotKnows'
      <3>1. CASE dpc' \in {"list", "get", "write"}
        BY <1>3, <2>1, <3>1, HeardOn
      <3>2. CASE dpc' \notin {"list", "get", "write"}
        BY <3>2 DEF DepotKnows
      <3>3. QED
        BY <3>1, <3>2
    <2>4. QED
      BY <1>0, <2>1, <2>2, <2>3 DEF MatchInv
  <1>4. ASSUME DReturn(TRUE), UNCHANGED <<depot, resource, releases>> PROVE MatchInv'
    BY <1>3, <1>4 DEF DReturn
  <1>5. CASE DepotReconcile
    <2>1. UNCHANGED <<depot, resource, releases>>
      BY <1>5 DEF DepotReconcile
    <2>2. /\ VersionsOwned' /\ RoundKnows'
          /\ \A n \in Provider : OnTheWay(n)' /\ Known(n)' = Known(n)
      BY <1>0, <1>1, <1>2, <2>1, DepotPassing
    <2>3. DepotPatient'
      BY <1>5 DEF MatchInv, DepotPatient, DepotReconcile
    <2>4. DepotKnows'
      BY <1>5 DEF DepotKnows, DepotReconcile, DRound, DIdle
    <2>5. QED
      BY <1>0, <2>2, <2>3, <2>4 DEF MatchInv
  <1>6. CASE ListReleases
    <2>1. UNCHANGED <<depot, resource, releases, dqueue>> /\ dpc = "list"
      BY <1>6 DEF ListReleases
    <2>2. /\ VersionsOwned' /\ RoundKnows'
          /\ \A n \in Provider : OnTheWay(n)' /\ Known(n)' = Known(n)
      BY <1>0, <1>1, <1>2, <2>1, DepotPassing
    <2>3. DepotPatient'
      BY <2>1 DEF MatchInv, DepotPatient
    <2>4. DepotKnows'
      BY <1>6, <2>2, MatchListing
    <2>5. QED
      BY <1>0, <2>2, <2>3, <2>4 DEF MatchInv
  <1>7. CASE RejectConfig
    BY <1>4, <1>7 DEF RejectConfig
  <1>8. CASE GetResource
    <2>1. UNCHANGED <<depot, resource, releases, dqueue>> /\ dpc = "get" /\ dpc' = "write"
      BY <1>8 DEF GetResource
    <2>2. /\ VersionsOwned' /\ RoundKnows'
          /\ \A n \in Provider : OnTheWay(n)' /\ Known(n)' = Known(n)
      BY <1>0, <1>1, <1>2, <2>1, DepotPassing
    <2>3. DepotPatient'
      BY <2>1 DEF MatchInv, DepotPatient
    <2>4. dlocal'.todo = dlocal.todo /\ dlocal'.matched = dlocal.matched
      BY <1>0, <1>8 DEF GetResource, SupplyInv, SupplyTypeOK, DepotLocal
    <2>5. DepotKnows'
      BY <1>2, <2>1, <2>2, <2>4 DEF MatchInv, DepotKnows
    <2>6. QED
      BY <1>0, <2>2, <2>3, <2>5 DEF MatchInv
  <1>9. CASE WriteResource
    <2>1. CASE resource[Head(dlocal.todo).name].exists = dlocal.found
      <3>1. /\ VersionsOwned' /\ RoundKnows' /\ DepotKnows'
            /\ \A n \in Provider : OnTheWay(n)'
        BY <1>0, <1>9, <2>1, MatchWriting
      <3>2. DepotPatient'
        BY <1>9, <2>1 DEF MatchInv, DepotPatient, WriteResource
      <3>3. QED
        BY <1>0, <3>1, <3>2 DEF MatchInv
    <2>2. CASE resource[Head(dlocal.todo).name].exists # dlocal.found
      BY <1>4, <1>9, <2>2 DEF WriteResource
    <2>3. QED
      BY <2>1, <2>2
  <1>10. CASE DepotStatus
    <2>1. /\ UNCHANGED <<resource, releases>> /\ dpc' = "idle"
          /\ depot'.spec = depot.spec /\ depot'.exists = depot.exists
      BY <1>0, <1>10 DEF DepotStatus, DReturn, SupplyInv, SupplyTypeOK
    <2>2. QED
      BY <1>3, <2>1
  <1>11. CASE DepotInterrupted
    BY <1>4, <1>11 DEF DepotInterrupted
  <1>12. CASE Poll
    BY <1>3, <1>12 DEF Poll
  <1>13. CASE WriteDepot \/ RemoveDepot
    <2>1. dbudget["edit"] \in Nat /\ dbudget["edit"] > 0 /\ dbudget'["edit"] = dbudget["edit"] - 1
      BY <1>0, <1>13 DEF WriteDepot, RemoveDepot, DSpend, SupplyInv, SupplyTypeOK, DepotEvent
    <2>2. AllRest
      BY <2>1 DEF DepotSide
    <2>3. UNCHANGED <<resource, releases, dpc, dlocal>>
      BY <1>13 DEF WriteDepot, RemoveDepot
    <2>4. /\ VersionsOwned' /\ RoundKnows' /\ DepotKnows'
          /\ \A n \in Provider : OnTheWay(n)'
      BY <1>0, <1>1, <2>2, <2>3, DepotEdited
    <2>5. DepotPatient'
      <3>1. depot'.spec \in DepotSpecs \cup {Depot0}
        BY <1>0, <1>13 DEF WriteDepot, RemoveDepot, MatchInv, DepotPatient, SupplyInv, SupplyTypeOK
      <3>2. dpc' = "idle"
        BY <2>2, <2>3 DEF AllRest, DepotRests
      <3>3. QED
        BY <3>1, <3>2 DEF DepotPatient
    <2>6. QED
      BY <1>0, <2>4, <2>5 DEF MatchInv
  <1>14. ASSUME NEW n \in Resource, Publish(n) PROVE MatchInv'
    <2>1. UNCHANGED <<depot, resource, dqueue, dpc, dlocal>>
      BY <1>14 DEF Publish
    <2>2. PICK i \in DOMAIN Upcoming[n] : releases' = [releases EXCEPT ![n] = <<Upcoming[n][i]>> \o @]
      BY <1>14 DEF Publish
    <2>3. Upcoming[n] \in Seq(Tag) /\ releases \in [Resource -> Seq(Tag)]
      BY <1>0, DepotConstants DEF SupplyInv, SupplyTypeOK
    <2>4. Upcoming[n][i] \in Tag
      BY <2>3
    <2>5. ASSUME NEW m \in Provider PROVE Published(m) \subseteq Published(m)'
      <3>1. CASE m # n
        BY <2>2, <2>3, <3>1 DEF Published, Resource
      <3>2. CASE m = n
        <4> DEFINE old == releases[n]
                   new == <<Upcoming[n][i]>> \o old
        <4>1. old \in Seq(Tag) /\ releases'[n] = new
          BY <2>2, <2>3
        <4>2. \A j \in DOMAIN old : j + 1 \in DOMAIN new /\ new[j + 1] = old[j]
          BY <2>4, <4>1
        <4> HIDE DEF old, new
        <4>3. Published(n) = {TagNumber[old[j]] : j \in DOMAIN old}
          BY DEF Published, old
        <4>4. Published(n)' = {TagNumber[new[j]] : j \in DOMAIN new}
          BY <4>1 DEF Published
        <4>5. QED
          BY <3>2, <4>2, <4>3, <4>4
      <3>3. QED
        BY <3>1, <3>2
    <2>6. /\ VersionsOwned' /\ RoundKnows'
          /\ \A m \in Provider : OnTheWay(m)' /\ Known(m)' = Known(m)
      BY <1>0, <1>1, <2>1, <2>5, DepotPassing
    <2>7. DepotPatient'
      BY <2>1 DEF MatchInv, DepotPatient
    <2>8. DepotKnows'
      <3>1. DepotKnows
        BY DEF MatchInv
      <3>2. QED
        BY <2>1, <2>5, <2>6, <3>1 DEF DepotKnows
    <2>9. QED
      BY <1>0, <2>6, <2>7, <2>8 DEF MatchInv
  <1>15. QED
    BY <1>5, <1>6, <1>7, <1>8, <1>9, <1>10, <1>11, <1>12, <1>13, <1>14 DEF DepotSide, DepotNext, DepotStep
-----------------------------------------------------------------------------
\* Steps of the Provider controller, and the Versions

\* While the worker is busy with one Provider, the others stay on the way.
LEMMA WorkerOn ==
  ASSUME MatchInv, SupplyInv', NEW n \in Provider, Working(n) \/ ppc = "idle",
         ppc' # "idle" => plocal'.name = n,
         UNCHANGED <<depot, releases, dqueue, dpc, dlocal>>,
         \A m \in Provider : m # n => resource'[m] = resource[m] /\ (m \in pqueue => m \in pqueue'),
         \A k \in Key : k[1] # n => version'[k] = version[k],
         VersionsOwned', RoundKnows', OnTheWay(n)', Known(n)' \subseteq Known(n)
  PROVE  MatchInv'
  <1>1. DepotPatient'
    BY DEF MatchInv, DepotPatient
  <1>2. ASSUME NEW m \in Provider, m # n PROVE OnTheWay(m)' /\ Known(m)' \subseteq Known(m)
    <2>1. ~Working(m) /\ ~Working(m)'
      BY <1>2 DEF Working
    <2>2. \A k \in Key : k[1] = m => version'[k] = version[k] /\ (Gone(k)' => Gone(k))
      BY <1>2 DEF Gone, RoundKnows
    <2>3. Published(m) \subseteq Published(m)'
      BY DEF Published
    <2>4. resource'[m] = resource[m] /\ SameSpec(resource'[m], resource[m]) /\ (m \in pqueue => m \in pqueue')
      BY <1>2 DEF SameSpec
    <2>5. \A k \in Key : k[1] = m =>
             /\ version'[k].exists => version[k].exists
             /\ version[k].exists /\ ~version[k].deleting => version'[k].exists /\ ~version'[k].deleting
             /\ Gone(k)' => Gone(k)
      BY <2>2
    <2>6. QED
      BY <2>1, <2>3, <2>4, <2>5, Unmoved
  <1>3. DepotKnows'
    BY <1>2, HeardOn
  <1>4. QED
    BY <1>1, <1>2, <1>3 DEF MatchInv

\* A worker that is done with a Provider no change has overtaken leaves it supplied.
LEMMA DoneIsSupplied ==
  ASSUME MatchInv, NEW n \in Provider, Working(n), ppc \notin {"trim", "loop", "write"}, n \notin pqueue
  PROVE  /\ Check(resource[n]) = "loop"
         /\ \A k \in Desired(n, resource[n]) : version[k].exists /\ ~version[k].deleting
  <1>1. /\ SameSpec(plocal.provider, resource[n]) /\ Check(plocal.provider) = "loop"
        /\ plocal.desired = Desired(n, plocal.provider) /\ plocal.todo = {}
        /\ \A k \in plocal.desired \ plocal.todo : version[k].exists /\ ~version[k].deleting
    BY DEF MatchInv, RoundKnows, Working
  <1>2. QED
    BY <1>1, SpecKept

\* The end of a reconcile that leaves the Versions alone.
LEMMA MatchReturning ==
  ASSUME MatchInv, SupplyInv', NEW n \in Provider, Working(n), NEW requeue \in BOOLEAN, PReturn(requeue),
         UNCHANGED <<depot, releases, dqueue, dpc, dlocal, resource, version>>,
         requeue \/ ppc \notin {"trim", "loop", "write"}
  PROVE  MatchInv'
  <1>1. ppc' = "idle" /\ pqueue \subseteq pqueue' /\ (requeue => n \in pqueue')
    BY DEF PReturn, Working
  <1>2. VersionsOwned' /\ RoundKnows'
    BY <1>1 DEF MatchInv, VersionsOwned, RoundKnows
  <1>3. \/ n \in pqueue'
        \/ /\ Check(resource[n]) = "loop"
           /\ \A k \in Desired(n, resource[n]) : version[k].exists /\ ~version[k].deleting
    BY <1>1, DoneIsSupplied
  <1>4. ~Working(n)' /\ \A k : Gone(k)' => Gone(k)
    BY <1>1 DEF Working, Gone
  <1>5. SameSpec(resource'[n], resource[n]) /\ Published(n)' = Published(n)
    BY DEF SameSpec, Published
  <1>6. OnTheWay(n)' /\ Known(n)' \subseteq Known(n)
    BY <1>1, <1>3, <1>4, <1>5, Unmoved
  <1>7. QED
    BY <1>1, <1>2, <1>6, WorkerOn

LEMMA MatchReconciling ==
  ASSUME MatchInv, NEW n \in Provider, ProviderReconcile(n)
  PROVE  MatchInv'
  <1> DEFINE p == resource[n]
  <1>0. /\ SupplyInv' /\ ppc = "idle" /\ n \in pqueue
        /\ UNCHANGED <<depot, releases, dqueue, dpc, dlocal, resource, version>>
    <2>1. SupplyInv
      BY DEF MatchInv
    <2>2. SupplyInv'
      BY <2>1, ProviderReconciling
    <2>3. QED
      BY <2>2 DEF ProviderReconcile, depotVars
  <1>1. OnTheWay(n)
    BY DEF MatchInv
  <1>2. /\ VersionsOwned' /\ Owned(n)' = Owned(n) /\ Published(n)' = Published(n) /\ Agreed(n)' = Agreed(n)
        /\ ~Working(n)
    BY <1>0 DEF MatchInv, VersionsOwned, Owned, Published, Agreed, Working
  <1>3. CASE p.exists /\ Check(p) # "error"
    <2> DEFINE desired == Desired(n, p)
    <2>1. /\ pqueue' = pqueue \ {n} /\ ppc' = Check(p) /\ plocal'.name = n /\ plocal'.provider = p
          /\ plocal'.keep = ToKeep(p.versions, p.config.limit)
          /\ plocal'.todo = desired /\ plocal'.desired = desired
      BY <1>3 DEF ProviderReconcile, PIdle
    <2>2. ppc' \in {"trim", "loop"}
      BY <1>3, <2>1 DEF Check
    <2>3. Working(n)' /\ \A k : Gone(k)' => Gone(k)
      BY <1>0, <2>1, <2>2 DEF Working, Gone
    <2>4. RoundKnows'
      BY <1>0, <2>1, <2>2 DEF RoundKnows, SameSpec
    <2>5. Known(n)' = Known(n)
      BY <1>0, <1>2, <2>1 DEF Known
    <2>6. Listed(n)'
      BY <1>0, <1>1, <1>2, <1>3, <2>1, <2>5 DEF OnTheWay, Listed
    <2>7. Waiting(n)'
      <3>1. Even(n) => Even(n)'
        BY <1>0, <1>2, <2>1 DEF Even, Has, SameSpec
      <3>2. QED
        BY <1>0, <1>1, <1>2, <2>1, <3>1 DEF OnTheWay, Waiting
    <2>8. Ordered(n)'
      <3>1. Lists(n)' \subseteq Lists(n)
        BY <1>0, <2>1 DEF Lists
      <3>2. QED
        BY <1>0, <1>1, <1>2, <2>3, <3>1 DEF OnTheWay, Ordered
    <2>9. Supplied(n)'
      BY <2>3 DEF Supplied
    <2>10. OnTheWay(n)'
      BY <2>6, <2>7, <2>8, <2>9 DEF OnTheWay
    <2>11. QED
      BY <1>0, <1>2, <2>1, <2>4, <2>5, <2>10, WorkerOn
  <1>4. CASE ~(p.exists /\ Check(p) # "error")
    <2>1. /\ pqueue' = IF p.exists THEN pqueue ELSE pqueue \ {n}
          /\ UNCHANGED <<ppc, plocal>>
      BY <1>4 DEF ProviderReconcile
    <2>2. RoundKnows'
      BY <1>0, <2>1 DEF RoundKnows
    <2>3. Known(n)' = Known(n)
      BY <1>0, <1>2, <2>1 DEF Known, Working
    <2>4. Listed(n)' /\ Waiting(n)' /\ Ordered(n)'
      BY <1>0, <1>1, <1>2, <2>1, <2>3
         DEF OnTheWay, Listed, Waiting, Even, Has, Ordered, Lists, Gone, Working
    <2>5. Supplied(n)'
      BY <1>0, <1>1, <2>1 DEF OnTheWay, Supplied, Working
    <2>6. OnTheWay(n)'
      BY <2>4, <2>5 DEF OnTheWay
    <2>7. QED
      BY <1>0, <1>2, <2>1, <2>2, <2>3, <2>6, WorkerOn
  <1>5. QED
    BY <1>3, <1>4

\* What the worker works on.
LEMMA RoundFacts ==
  ASSUME MatchInv, ppc # "idle", NEW n, n = plocal.name
  PROVE  /\ n \in Provider /\ Working(n) /\ resource[n].exists
         /\ SupplyInv /\ OnTheWay(n) /\ ResourceOK(n, resource[n])
         /\ ResourceOK(n, plocal.provider) /\ plocal.provider.exists
         /\ plocal.provider.versions \in SUBSET Nat /\ IsFiniteSet(plocal.provider.versions)
         /\ plocal.provider.versions \subseteq Known(n)
         /\ plocal.desired \subseteq {n} \X Number \X Platform /\ plocal.desired \subseteq Key
  <1>1. /\ n \in Provider /\ Working(n) /\ resource[n].exists /\ SupplyInv /\ OnTheWay(n)
        /\ ResourceOK(n, plocal.provider) /\ plocal.provider.exists
        /\ plocal.desired \subseteq {n} \X Number \X Platform
    BY DEF MatchInv, SupplyInv, SupplyTypeOK, WorkersBusy, Working
  <1>2. ResourceOK(n, resource[n])
    BY <1>1 DEF SupplyInv, SupplyTypeOK, Resource
  <1>3. plocal.desired \subseteq Key
    BY <1>1 DEF Key
  <1>4. plocal.provider.versions \subseteq Known(n)
    BY <1>1 DEF Known
  <1>5. plocal.provider.versions \in SUBSET Published(n)
    BY <1>1, <1>4 DEF OnTheWay, Listed
  <1>6. QED
    BY <1>1, <1>2, <1>3, <1>4, <1>5, ListsOK DEF OnTheWay

LEMMA MatchTrimming ==
  ASSUME MatchInv, TrimProvider
  PROVE  MatchInv'
  <1>0. PICK n : n = plocal.name
    OBVIOUS
  <1> DEFINE L == plocal.provider.versions
             c == resource[n].config
             p == [resource[n] EXCEPT !.versions = plocal.keep]
             keep == Newest(L, c.limit)
  <1>1. /\ n \in Provider /\ Working(n) /\ resource[n].exists /\ SupplyInv /\ OnTheWay(n)
        /\ ResourceOK(n, resource[n])
        /\ L \in SUBSET Nat /\ IsFiniteSet(L) /\ L \subseteq Known(n) /\ ppc = "trim"
    BY <1>0, RoundFacts DEF TrimProvider
  <1>2. /\ SupplyInv' /\ ppc' = "loop"
        /\ UNCHANGED <<depot, releases, dqueue, dpc, dlocal, version>>
        /\ pqueue \subseteq pqueue' /\ (ProviderChanged(resource[n], p) => n \in pqueue')
    BY <1>0, <1>1, Trimming DEF TrimProvider, depotVars
  <1>3. /\ plocal'.name = n /\ plocal'.provider = p
        /\ plocal'.todo = Desired(n, p) /\ plocal'.desired = Desired(n, p)
    BY <1>0, <1>1 DEF TrimProvider, SupplyInv, SupplyTypeOK, PIdle
  <1>4. /\ resource'[n] = p /\ \A m \in Provider : m # n => resource'[m] = resource[m]
    BY <1>0, <1>1 DEF TrimProvider, SupplyInv, SupplyTypeOK, Resource
  <1>5. plocal.provider.config = c /\ Agreed(n)
    BY <1>1 DEF OnTheWay, Waiting, Even
  <1>6. plocal.keep = keep /\ Check(plocal.provider) = "trim"
    BY <1>1, <1>5 DEF MatchInv, RoundKnows, ToKeep
  <1>7. p.exists /\ p.config = c /\ p.versions = keep
    BY <1>1, <1>6 DEF ResourceOK, NoResource
  <1>8. c.limit \in Nat /\ Cardinality(L) \in Nat
    BY <1>1, LimitOK, FS_CardinalityType
  <1>9. c.platforms # {} /\ c.limit > 0 /\ c.limit < Cardinality(L)
    BY <1>5, <1>6, <1>8 DEF Check
  <1> HIDE DEF L, c, p
  <1>10. keep \in SUBSET L /\ IsFiniteSet(keep) /\ Cardinality(keep) = c.limit
    BY <1>1, <1>8, <1>9, KeptIsFull
  <1>11. ASSUME NEW v \in Nat, Out(v, L, c.limit) \/ (v \in L /\ v \notin keep)
         PROVE  Out(v, keep, c.limit)
    BY <1>1, <1>8, <1>9, <1>11, KeptBelow
  <1> HIDE DEF keep
  <1>12. Check(p) = "loop"
    BY <1>7, <1>8, <1>9, <1>10 DEF Check
  <1>13. Working(n)' /\ Owned(n)' = Owned(n) /\ Published(n)' = Published(n) /\ \A k : Gone(k)' => Gone(k)
    BY <1>2, <1>3 DEF Working, Owned, Published, Gone
  <1>14. Known(n)' \subseteq Known(n)
    BY <1>1, <1>3, <1>4, <1>7, <1>10, <1>13 DEF Known
  <1>15. RoundKnows'
    BY <1>2, <1>3, <1>4, <1>12 DEF RoundKnows, SameSpec
  <1>16. VersionsOwned'
    <2>1. \A m \in Provider : resource[m].exists => resource'[m].exists
      BY <1>4, <1>7
    <2>2. \A k \in Key : k[1] \in Provider
      BY DEF Key
    <2>3. QED
      BY <1>2, <2>1, <2>2 DEF MatchInv, VersionsOwned
  <1>17. Listed(n)'
    BY <1>1, <1>3, <1>4, <1>5, <1>7, <1>10, <1>13, <1>14 DEF OnTheWay, Listed, L
  <1>18. Waiting(n)'
    BY <1>2, <1>3, <1>4, <1>5, <1>7 DEF Waiting, Agreed, c
  <1>19. Ordered(n)'
    <2>1. Lists(n)' = {keep}
      BY <1>3, <1>4, <1>7 DEF Lists
    <2>2. L \in Lists(n)
      BY <1>1, <1>5 DEF Lists, L, c
    <2>3. ASSUME NEW k \in Owned(n), k[2] \in c.accepts PROVE Below(k[2], keep, c.limit)
      <3>1. k[2] \in Nat /\ Below(k[2], L, c.limit)
        BY <1>1, <2>2, <2>3, ListsOK DEF OnTheWay, Ordered, c
      <3>2. QED
        BY <1>11, <3>1 DEF Below
    <2>4. ASSUME NEW k \in Key, k[1] = n, Gone(k), k[2] \in c.accepts, k[3] \in c.platforms
          PROVE  Out(k[2], keep, c.limit)
      <3>1. Out(k[2], L, c.limit)
        BY <1>1, <2>2, <2>4 DEF OnTheWay, Ordered, c
      <3>2. k[2] \in Nat
        BY DepotConstants DEF Key, Number
      <3>3. QED
        BY <1>11, <3>1, <3>2
    <2>5. QED
      BY <1>4, <1>7, <1>13, <2>1, <2>3, <2>4 DEF Ordered, Below
  <1>20. Supplied(n)'
    BY <1>13 DEF Supplied
  <1>21. OnTheWay(n)'
    BY <1>17, <1>18, <1>19, <1>20 DEF OnTheWay
  <1>22. QED
    BY <1>1, <1>2, <1>3, <1>4, <1>14, <1>15, <1>16, <1>21, WorkerOn

\* A round goes on without touching a Version or a spec.
LEMMA MatchPassing ==
  ASSUME MatchInv, SupplyInv', NEW n \in Provider, Working(n), ppc # "trim",
         ppc' \in {"write", "reset", "status", "removals"},
         plocal'.name = n, plocal'.provider = plocal.provider,
         plocal'.todo = plocal.todo, plocal'.desired = plocal.desired,
         ppc' # "write" => plocal.todo = {},
         UNCHANGED <<depot, releases, dqueue, dpc, dlocal, version>>, pqueue \subseteq pqueue',
         resource'[n].exists = resource[n].exists, SameSpec(resource'[n], resource[n]),
         \A m \in Provider : m # n => resource'[m] = resource[m]
  PROVE  MatchInv'
  <1>1. VersionsOwned'
    <2>1. \A m \in Provider : resource'[m].exists = resource[m].exists
      OBVIOUS
    <2>2. \A k \in Key : k[1] \in Provider
      BY DEF Key
    <2>3. QED
      BY <2>1, <2>2 DEF MatchInv, VersionsOwned
  <1>2. RoundKnows'
    BY DEF MatchInv, RoundKnows, Working, SameSpec
  <1>3. Published(n)' = Published(n) /\ \A k \in Key : Gone(k)' => Gone(k)
    BY DEF Published, Gone
  <1>4. OnTheWay(n)' /\ Known(n)' \subseteq Known(n)
    BY <1>3, Unmoved DEF Working
  <1>5. QED
    BY <1>1, <1>2, <1>4, WorkerOn

LEMMA MatchReading ==
  ASSUME MatchInv, ReadOwned
  PROVE  MatchInv'
  <1>0. PICK n : n = plocal.name
    OBVIOUS
  <1>1. n \in Provider /\ Working(n) /\ SupplyInv /\ ppc = "loop"
    BY <1>0, RoundFacts DEF ReadOwned
  <1>2. SupplyInv'
    BY <1>1, Reading
  <1>3. /\ plocal'.name = n /\ plocal'.provider = plocal.provider
        /\ plocal'.todo = plocal.todo /\ plocal'.desired = plocal.desired
        /\ ppc' \in {"write", "reset", "status"} /\ (ppc' # "write" => plocal.todo = {})
    BY <1>0, <1>1 DEF ReadOwned, AfterLoop, SupplyInv, SupplyTypeOK, PIdle
  <1>4. UNCHANGED <<depot, releases, dqueue, dpc, dlocal, resource, version, pqueue>>
    BY DEF ReadOwned, depotVars
  <1>5. SameSpec(resource'[n], resource[n])
    BY <1>4 DEF SameSpec
  <1>6. QED
    BY <1>1, <1>2, <1>3, <1>4, <1>5, MatchPassing

LEMMA MatchNoting ==
  ASSUME MatchInv, ProviderResetForceSync \/ ProviderStatus
  PROVE  MatchInv'
  <1>0. PICK n : n = plocal.name
    OBVIOUS
  <1>1. /\ n \in Provider /\ Working(n) /\ SupplyInv /\ ResourceOK(n, resource[n])
        /\ resource[n].exists /\ ppc \in {"reset", "status"}
    BY <1>0, RoundFacts DEF ProviderResetForceSync, ProviderStatus
  <1>2. SupplyInv'
    BY <1>1, Noting
  <1>3. ppc' \in {"status", "removals"} /\ plocal.todo = {} /\ pqueue \subseteq pqueue'
        /\ UNCHANGED <<depot, releases, dqueue, dpc, dlocal, version, plocal>>
    BY <1>1 DEF ProviderResetForceSync, ProviderStatus, depotVars, MatchInv, RoundKnows
  <1>4. DOMAIN resource = Resource /\ n \in Resource
    BY <1>1 DEF SupplyInv, SupplyTypeOK, Resource
  <1>5. /\ resource'[n].exists = resource[n].exists /\ SameSpec(resource'[n], resource[n])
        /\ \A m \in Provider : m # n => resource'[m] = resource[m]
    <2>1. CASE ProviderResetForceSync
      <3>1. resource' = [resource EXCEPT ![n] = [resource[n] EXCEPT !.forceSync = FALSE]]
        BY <1>0, <2>1 DEF ProviderResetForceSync
      <3>2. QED
        BY <1>1, <1>4, <3>1 DEF SameSpec, ResourceOK, NoResource, Resource
    <2>2. CASE ProviderStatus
      <3> DEFINE x == IF resource[n].versions = {} THEN resource[n].latest
                      ELSE CHOOSE v \in resource[n].versions : \A w \in resource[n].versions : w <= v
      <3>1. resource' = [resource EXCEPT ![n] = [resource[n] EXCEPT !.synced = TRUE, !.latest = x]]
        BY <1>0, <2>2 DEF ProviderStatus
      <3> HIDE DEF x
      <3>2. QED
        BY <1>1, <1>4, <3>1 DEF SameSpec, ResourceOK, NoResource, Resource
    <2>3. QED
      BY <2>1, <2>2
  <1>6. QED
    BY <1>0, <1>1, <1>2, <1>3, <1>5, MatchPassing

\* A Version a round asks for is not on its way out.
LEMMA AskedStays ==
  ASSUME MatchInv, ppc \notin {"idle", "trim"}, NEW n, n = plocal.name,
         NEW k \in plocal.desired, version[k].deleting
  PROVE  FALSE
  <1> DEFINE p == plocal.provider
  <1>1. /\ n \in Provider /\ Working(n) /\ resource[n].exists /\ OnTheWay(n)
        /\ p.versions \in SUBSET Nat /\ IsFiniteSet(p.versions)
        /\ k \in Key
    BY RoundFacts
  <1>2. Check(p) = "loop" /\ plocal.desired = Desired(n, p)
    BY DEF MatchInv, RoundKnows
  <1>3. k[1] = n /\ k[2] \in p.versions /\ k[3] \in p.config.platforms
    BY <1>2 DEF Desired
  <1>4. p.config = resource[n].config
    BY <1>1 DEF OnTheWay, Waiting, Has
  <1>5. p.versions \in Lists(n) /\ k[2] \in p.config.accepts
    BY <1>1, <1>3, <1>4 DEF Lists, OnTheWay, Listed
  <1>6. Out(k[2], p.versions, p.config.limit)
    BY <1>1, <1>3, <1>4, <1>5 DEF OnTheWay, Ordered, Gone
  <1>7. p.config.limit \in Nat
    BY <1>1, <1>4, LimitOK DEF MatchInv
  <1> HIDE DEF p
  <1>8. QED
    BY <1>1, <1>2, <1>3, <1>6, <1>7, CheckedLimit, ListedIsIn

LEMMA MatchOwning ==
  ASSUME MatchInv, WriteOwned
  PROVE  MatchInv'
  <1>0. PICK n : n = plocal.name
    OBVIOUS
  <1> DEFINE p == plocal.provider
             c == resource[n].config
  <1>1. /\ n \in Provider /\ Working(n) /\ resource[n].exists /\ SupplyInv /\ OnTheWay(n)
        /\ p.versions \subseteq Known(n) /\ plocal.desired \subseteq Key
        /\ ppc = "write" /\ plocal.todo # {} /\ plocal.todo \subseteq plocal.desired
    BY <1>0, RoundFacts DEF WriteOwned, SupplyInv, WorkersBusy, SupplyTypeOK
  <1>2. SupplyInv' /\ UNCHANGED <<depot, releases, dqueue, dpc, dlocal, resource>>
    BY <1>1, Writing DEF WriteOwned, depotVars
  <1>3. PICK k \in plocal.todo : k = Current
    BY <1>1, CurrentOK
  <1>4. /\ plocal.desired = Desired(n, p) /\ Check(p) = "loop"
        /\ \A j \in plocal.desired \ plocal.todo : version[j].exists /\ ~version[j].deleting
    BY <1>0, <1>1 DEF MatchInv, RoundKnows
  <1>5. k \in Key /\ k \in plocal.desired /\ k[1] = n /\ k[2] \in p.versions
    BY <1>1, <1>3, <1>4 DEF Desired
  <1>6. ~version[k].deleting
    BY <1>0, <1>1, <1>5, AskedStays
  <1>7. CASE version[k] # plocal.object
    <2>1. PReturn(TRUE) /\ UNCHANGED version
      BY <1>3, <1>7 DEF WriteOwned
    <2>2. QED
      BY <1>1, <1>2, <2>1, MatchReturning
  <1>8. CASE version[k] = plocal.object
    <2> DEFINE w == Rewritten(version[k], p.config)
    <2>1. /\ version' = [version EXCEPT ![k] = w] /\ ppc' = "loop" /\ pqueue' = pqueue
          /\ plocal'.name = n /\ plocal'.provider = p /\ plocal'.desired = plocal.desired
          /\ plocal'.todo = plocal.todo \ {k} /\ plocal'.doomed = plocal.doomed
      BY <1>0, <1>1, <1>3, <1>8 DEF WriteOwned, SupplyInv, SupplyTypeOK, PIdle
    <2>2. w.exists /\ ~w.deleting
      <3>1. version[k] \in OwnedVersion
        BY <1>1, <1>5 DEF SupplyInv, SupplyTypeOK
      <3>2. QED
        BY <1>6, <3>1 DEF Rewritten, OwnedVersion
    <2> HIDE DEF w, p, c
    <2>3. /\ version'[k] = w /\ \A j \in Key : j # k => version'[j] = version[j]
      BY <1>1, <1>5, <2>1 DEF SupplyInv, SupplyTypeOK
    <2>4. Owned(n)' = Owned(n) \cup {k} /\ \A j \in Key : Gone(j)' => Gone(j)
      BY <1>5, <2>1, <2>2, <2>3 DEF Owned, Gone
    <2>5. Working(n)' /\ Published(n)' = Published(n) /\ Agreed(n)' = Agreed(n)
      BY <1>2, <2>1 DEF Working, Published, Agreed
    <2>6. Known(n)' \subseteq Known(n)
      BY <1>1, <1>2, <1>5, <2>1, <2>4, <2>5 DEF Known, p
    <2>7. ASSUME NEW asked, Has(n, asked), k \in asked PROVE Has(n, asked)'
      BY <2>2, <2>3, <2>4, <2>7 DEF Has, Owned
    <2>8. RoundKnows'
      BY <1>0, <1>1, <1>2, <1>4, <2>1, <2>2, <2>3 DEF MatchInv, RoundKnows, p
    <2>9. VersionsOwned'
      BY <1>1, <1>2, <1>5, <2>2, <2>3 DEF MatchInv, VersionsOwned
    <2>10. Listed(n)'
      BY <1>1, <1>2, <2>1, <2>5, <2>6 DEF OnTheWay, Listed, p
    <2>11. Waiting(n)'
      <3>1. Even(n) => Even(n)'
        <4>1. SUFFICES ASSUME Even(n) PROVE Even(n)'
          OBVIOUS
        <4>2. Desired(n, resource[n]) = plocal.desired /\ SameSpec(p, resource[n])
          BY <1>1, <1>4, <4>1, SpecKept DEF Even, p
        <4>3. Has(n, Desired(n, resource[n]))'
          BY <1>2, <1>5, <2>7, <4>1, <4>2 DEF Even, Has
        <4>4. QED
          BY <1>2, <2>1, <4>1, <4>2, <4>3 DEF Even
      <3>2. Has(n, plocal.desired) => Has(n, plocal.desired)'
        BY <1>5, <2>1, <2>7 DEF Has
      <3>3. QED
        BY <1>1, <1>2, <2>1, <2>5, <3>1, <3>2 DEF OnTheWay, Waiting, p
    <2>12. Ordered(n)'
      <3>1. Lists(n)' = Lists(n)
        BY <1>1, <1>2, <2>1, <2>5 DEF Lists, p
      <3>2. ASSUME NEW l \in Lists(n), k[2] \in c.accepts PROVE Below(k[2], l, c.limit)
        <4>1. CASE k \in Owned(n)
          BY <1>1, <3>2, <4>1 DEF OnTheWay, Ordered, c
        <4>2. CASE k \notin Owned(n)
          <5>1. p.config = c
            BY <1>1, <1>5, <4>2 DEF OnTheWay, Waiting, Has, p, c
          <5>2. p.versions \in Lists(n)
            BY <1>1, <5>1 DEF Lists, p, c
          <5>3. Below(k[2], resource[n].versions, c.limit)
            BY <1>1, <1>5, <5>2 DEF OnTheWay, Ordered, c
          <5>4. l = resource[n].versions \/ l = p.versions
            BY DEF Lists, p
          <5>5. QED
            BY <1>5, <5>3, <5>4 DEF Below
        <4>3. QED
          BY <4>1, <4>2
      <3>3. QED
        BY <1>1, <1>2, <2>4, <3>1, <3>2 DEF OnTheWay, Ordered, c
    <2>13. Supplied(n)'
      BY <2>5 DEF Supplied
    <2>14. OnTheWay(n)'
      BY <2>10, <2>11, <2>12, <2>13 DEF OnTheWay
    <2>15. \A j \in Key : j[1] # n => version'[j] = version[j]
      BY <1>5, <2>3
    <2>16. QED
      BY <1>1, <1>2, <2>1, <2>6, <2>8, <2>9, <2>14, <2>15, WorkerOn
  <1>9. QED
    BY <1>7, <1>8

LEMMA MatchRemoving ==
  ASSUME MatchInv, OwnLabels, ListStale
  PROVE  MatchInv'
  <1>0. PICK n : n = plocal.name
    OBVIOUS
  <1> DEFINE p == plocal.provider
             c == resource[n].config
             doomed == Owned(n) \ plocal.desired
  <1>1. /\ n \in Provider /\ Working(n) /\ resource[n].exists /\ SupplyInv /\ OnTheWay(n)
        /\ p.versions \in SUBSET Nat /\ plocal.desired \subseteq Key /\ ppc = "removals"
    BY <1>0, RoundFacts DEF ListStale
  <1>2. SupplyInv' /\ UNCHANGED <<depot, releases, dqueue, dpc, dlocal, resource, version>>
    BY <1>1, Listing DEF ListStale, depotVars
  <1>3. /\ plocal.desired = Desired(n, p) /\ Check(p) = "loop" /\ plocal.todo = {}
        /\ \A j \in plocal.desired : version[j].exists /\ ~version[j].deleting
    BY <1>0, <1>1 DEF MatchInv, RoundKnows
  <1>4. {k \in Key : LabelOf[k[1]] = n /\ version[k].exists} \ plocal.desired = doomed
    <2>1. \A k \in Key : LabelOf[k[1]] = k[1]
      BY DEF OwnLabels, Key
    <2>2. QED
      BY <2>1 DEF Owned
  <1>5. CASE doomed = {}
    <2>1. PReturn(FALSE)
      BY <1>0, <1>4, <1>5 DEF ListStale
    <2>2. QED
      BY <1>1, <1>2, <2>1, MatchReturning
  <1>6. CASE doomed # {}
    <2>1. /\ ppc' = "delete" /\ UNCHANGED pqueue
          /\ plocal'.name = n /\ plocal'.provider = p /\ plocal'.desired = plocal.desired
          /\ plocal'.todo = plocal.todo /\ plocal'.doomed = doomed
      BY <1>0, <1>1, <1>4, <1>6 DEF ListStale, SupplyInv, SupplyTypeOK, PIdle
    <2>2. /\ Owned(n)' = Owned(n) /\ Published(n)' = Published(n)
          /\ Agreed(n)' = Agreed(n) /\ Working(n)' /\ VersionsOwned'
      BY <1>2, <2>1 DEF Owned, Published, Agreed, Working, MatchInv, VersionsOwned
    <2>3. \A k \in doomed : k[1] = n /\ k \notin plocal.desired
      BY DEF Owned
    <2>4. ~Even(n)
      BY <1>1, <1>3, <1>6, SpecKept DEF Even, Has
    <2>5. Agreed(n) /\ p.config = c
      BY <1>1, <1>6, <2>4 DEF OnTheWay, Waiting, Has
    <2>6. \A k \in doomed : k \in Owned(n)
      OBVIOUS
    <2>7. \A k \in doomed : k[3] \in c.platforms => k[2] \notin p.versions
      BY <1>3, <2>5 DEF Desired, Owned, Key
    <2> HIDE DEF doomed, p, c
    <2>8. RoundKnows'
      BY <1>0, <1>1, <1>2, <1>3, <2>1, <2>3 DEF MatchInv, RoundKnows, p
    <2>9. Known(n)' = Known(n)
      BY <1>1, <1>2, <2>1, <2>2 DEF Known, p
    <2>10. Listed(n)'
      BY <1>1, <1>2, <2>1, <2>2, <2>9 DEF OnTheWay, Listed, p
    <2>11. Waiting(n)'
      BY <1>2, <2>1, <2>2, <2>5 DEF Waiting, c
    <2>12. Ordered(n)'
      <3>1. Lists(n)' = Lists(n)
        BY <1>1, <1>2, <2>1, <2>2 DEF Lists, p
      <3>2. p.versions \in Lists(n)
        BY <1>1, <2>5 DEF Lists, p, c
      <3>3. ASSUME NEW k \in doomed, k[2] \in c.accepts, k[3] \in c.platforms, NEW l \in Lists(n)
            PROVE  Out(k[2], l, c.limit)
        <4>1. k[2] \in Nat /\ Out(k[2], p.versions, c.limit)
          BY <1>1, <2>6, <2>7, <3>2, <3>3, ListsOK DEF OnTheWay, Ordered, Below, c
        <4>2. \A v \in p.versions : Below(v, resource[n].versions, c.limit)
          BY <1>1, <3>2 DEF OnTheWay, Ordered, c
        <4>3. c.limit \in Nat
          BY <1>1, LimitOK DEF c
        <4>4. resource[n].versions \in SUBSET Nat /\ IsFiniteSet(resource[n].versions)
          BY <1>1, ListsOK DEF OnTheWay, Lists
        <4>5. Out(k[2], resource[n].versions, c.limit)
          BY <1>1, <4>1, <4>2, <4>3, <4>4, OutThrough
        <4>6. l = resource[n].versions \/ l = p.versions
          BY DEF Lists, p
        <4>7. QED
          BY <4>1, <4>5, <4>6
      <3>4. \A k \in Key : Gone(k)' => Gone(k) \/ k \in doomed
        BY <1>2, <2>1 DEF Gone
      <3>5. QED
        BY <1>1, <1>2, <2>2, <3>1, <3>3, <3>4 DEF OnTheWay, Ordered, c
    <2>13. Supplied(n)'
      BY <2>2 DEF Supplied
    <2>14. OnTheWay(n)'
      BY <2>10, <2>11, <2>12, <2>13 DEF OnTheWay
    <2>15. QED
      BY <1>1, <1>2, <2>1, <2>2, <2>8, <2>9, <2>14, WorkerOn
  <1>7. QED
    BY <1>5, <1>6

LEMMA MatchDeleting ==
  ASSUME MatchInv, DeleteStale
  PROVE  MatchInv'
  <1>0. PICK n : n = plocal.name
    OBVIOUS
  <1> DEFINE p == plocal.provider
             c == resource[n].config
  <1>1. /\ n \in Provider /\ Working(n) /\ resource[n].exists /\ SupplyInv /\ OnTheWay(n)
        /\ plocal.desired \subseteq Key
        /\ ppc = "delete" /\ plocal.doomed # {} /\ plocal.doomed \subseteq Key
    BY <1>0, RoundFacts DEF DeleteStale, SupplyInv, WorkersBusy, SupplyTypeOK
  <1>2. SupplyInv' /\ UNCHANGED <<depot, releases, dqueue, dpc, dlocal, resource>>
    BY <1>1, Deleting DEF DeleteStale, depotVars
  <1>3. PICK k \in plocal.doomed : k = CHOOSE j \in plocal.doomed : TRUE
    BY <1>1
  <1>4. k \in Key /\ k[1] = n /\ k \notin plocal.desired
    BY <1>0, <1>1, <1>3 DEF MatchInv, RoundKnows
  <1>5. CASE ~version[k].exists
    <2>1. PReturn(TRUE) /\ UNCHANGED version
      BY <1>3, <1>5 DEF DeleteStale
    <2>2. QED
      BY <1>1, <1>2, <2>1, MatchReturning
  <1>6. CASE version[k].exists
    <2> DEFINE w == DeletedVersion(version[k])
    <2>1. /\ version' = [version EXCEPT ![k] = w]
          /\ \/ PReturn(FALSE)
             \/ /\ plocal' = [plocal EXCEPT !.doomed = @ \ {k}]
                /\ UNCHANGED <<ppc, pqueue>>
      BY <1>3, <1>6 DEF DeleteStale
    <2>2. /\ ~w.exists => w = NoVersion
          /\ w.exists => w.deleting
          /\ w.deleting => w.queued
      <3>1. version[k] \in OwnedVersion /\ (version[k].deleting => version[k].queued)
        BY <1>1, <1>4 DEF SupplyInv, SupplyTypeOK, MatchInv, VersionsOwned
      <3>2. QED
        BY <1>6, <3>1 DEF DeletedVersion, OwnedVersion, NoVersion
    <2> HIDE DEF w, p, c
    <2>3. /\ version'[k] = w /\ \A j \in Key : j # k => version'[j] = version[j]
      BY <1>1, <1>4, <2>1 DEF SupplyInv, SupplyTypeOK
    <2>4. /\ pqueue' = pqueue
          /\ \/ ppc' = "idle"
             \/ /\ ppc' = "delete" /\ plocal'.name = n /\ plocal'.provider = p
                /\ plocal'.desired = plocal.desired /\ plocal'.todo = plocal.todo
                /\ plocal'.doomed = plocal.doomed \ {k}
      BY <1>0, <1>1, <2>1 DEF PReturn, SupplyInv, SupplyTypeOK, PIdle, p
    <2>5. Owned(n)' \subseteq Owned(n) /\ \A j \in Key : Gone(j)' => Gone(j)
      BY <1>1, <1>3, <1>6, <2>3, <2>4 DEF Owned, Gone
    <2>6. Working(n)' => ppc' = "delete"
      BY <2>4 DEF Working
    <2>7. Agreed(n) /\ p.config = c
      BY <1>1 DEF OnTheWay, Waiting, Even, p, c
    <2>8. VersionsOwned'
      BY <1>1, <1>2, <1>4, <2>2, <2>3 DEF MatchInv, VersionsOwned
    <2>9. RoundKnows'
      <3>1. CASE ppc' = "idle"
        BY <3>1 DEF RoundKnows
      <3>2. CASE ppc' # "idle"
        BY <1>0, <1>1, <1>2, <1>4, <2>3, <2>4, <3>2 DEF MatchInv, RoundKnows, p
      <3>3. QED
        BY <3>1, <3>2
    <2>10. Published(n)' = Published(n) /\ Agreed(n)' = Agreed(n)
      BY <1>2 DEF Published, Agreed
    <2>11. Working(n)' => plocal'.provider = p
      BY <2>4 DEF Working
    <2>12. Known(n)' \subseteq Known(n)
      BY <1>1, <1>2, <2>5, <2>11 DEF Known, p
    <2>13. Listed(n)'
      BY <1>1, <1>2, <2>10, <2>11, <2>12 DEF OnTheWay, Listed, p
    <2>14. Waiting(n)'
      BY <1>2, <2>7, <2>10, <2>11 DEF Waiting, c
    <2>15. Ordered(n)'
      <3>1. Lists(n)' \subseteq Lists(n)
        BY <1>1, <1>2, <2>11 DEF Lists, p
      <3>2. QED
        BY <1>1, <1>2, <2>5, <3>1 DEF OnTheWay, Ordered
    <2>16. Supplied(n)'
      <3> SUFFICES ASSUME n \notin pqueue, ~Working(n)' PROVE Supplied(n)'
        BY <2>4 DEF Supplied
      <3>1. /\ Check(resource[n]) = "loop"
            /\ \A j \in Desired(n, resource[n]) : version[j].exists /\ ~version[j].deleting
        BY <1>1, DoneIsSupplied
      <3>2. Desired(n, resource[n]) = plocal.desired
        BY <1>0, <1>1, SpecKept DEF MatchInv, RoundKnows
      <3>3. \A j \in plocal.desired : version'[j] = version[j]
        BY <1>1, <1>4, <2>3
      <3>4. QED
        BY <1>2, <3>1, <3>2, <3>3 DEF Supplied
    <2>17. OnTheWay(n)'
      BY <2>13, <2>14, <2>15, <2>16 DEF OnTheWay
    <2>18. \A j \in Key : j[1] # n => version'[j] = version[j]
      BY <1>4, <2>3
    <2>19. ppc' # "idle" => plocal'.name = n
      BY <2>4
    <2>20. QED
      BY <1>1, <1>2, <2>4, <2>8, <2>9, <2>12, <2>17, <2>18, <2>19, WorkerOn
  <1>7. QED
    BY <1>5, <1>6

LEMMA MatchInterrupting ==
  ASSUME MatchInv, ProviderInterrupted
  PROVE  MatchInv'
  <1>1. PICK n : n = plocal.name
    OBVIOUS
  <1>2. n \in Provider /\ Working(n) /\ SupplyInv /\ PReturn(TRUE)
        /\ UNCHANGED <<depot, releases, dqueue, dpc, dlocal, resource, version>>
    BY <1>1, RoundFacts DEF ProviderInterrupted
  <1>3. SupplyInv'
    BY <1>2, Interrupting
  <1>4. QED
    BY <1>2, <1>3, MatchReturning

\* The Versions of every Provider stay on the way while no round moves.
LEMMA RestOn ==
  ASSUME MatchInv, SupplyInv', UNCHANGED <<depot, releases, dqueue, dpc, dlocal, ppc, plocal>>,
         pqueue \subseteq pqueue',
         \A n \in Provider : resource'[n].exists = resource[n].exists /\ SameSpec(resource'[n], resource[n]),
         \A k \in Key :
             /\ version'[k].exists => version[k].exists
             /\ version[k].exists /\ ~version[k].deleting => version'[k].exists /\ ~version'[k].deleting
             /\ version'[k].deleting => version[k].deleting,
         VersionsOwned'
  PROVE  MatchInv'
  <1>1. DepotPatient'
    BY DEF MatchInv, DepotPatient
  <1>2. RoundKnows'
    <2>1. ppc # "idle" => plocal.name \in Provider
      BY DEF MatchInv, SupplyInv, WorkersBusy
    <2>2. QED
      BY <2>1, RoundOn
  <1>3. \A k \in Key : Gone(k)' => Gone(k)
    BY DEF Gone
  <1>4. \A n : Working(n)' = Working(n) /\ Published(n)' = Published(n)
    BY DEF Working, Published
  <1>5. ASSUME NEW n \in Provider PROVE OnTheWay(n)' /\ Known(n)' \subseteq Known(n)
    BY <1>3, <1>4, Unmoved
  <1>6. DepotKnows'
    BY <1>5, HeardOn
  <1>7. QED
    BY <1>1, <1>2, <1>5, <1>6 DEF MatchInv

LEMMA MatchForcing ==
  ASSUME MatchInv, NEW n \in Provider, ForceProvider(n)
  PROVE  MatchInv'
  <1>1. SupplyInv /\ SupplyInv'
    <2>1. SupplyInv
      BY DEF MatchInv
    <2>2. QED
      BY <2>1, Forcing
  <1>2. /\ UNCHANGED <<depot, releases, dqueue, dpc, dlocal, version, ppc, plocal>>
        /\ resource' = [resource EXCEPT ![n].forceSync = TRUE] /\ pqueue \subseteq pqueue'
    BY DEF ForceProvider
  <1>3. \A m \in Provider : resource'[m].exists = resource[m].exists /\ SameSpec(resource'[m], resource[m])
    BY <1>1, <1>2 DEF SupplyInv, SupplyTypeOK, ResourceOK, Resource, NoResource, SameSpec
  <1>4. VersionsOwned'
    <2>1. \A k \in Key : k[1] \in Provider
      BY DEF Key
    <2>2. QED
      BY <1>2, <1>3, <2>1 DEF MatchInv, VersionsOwned
  <1>5. QED
    BY <1>1, <1>2, <1>3, <1>4, RestOn

LEMMA MatchSyncing ==
  ASSUME MatchInv, NEW k \in Key, SyncVersion(k)
  PROVE  MatchInv'
  <1> DEFINE o == version[k]
             w == IF o.deleting THEN NoVersion ELSE [o EXCEPT !.finalizer = TRUE, !.queued = FALSE]
  <1>1. SupplyInv /\ SupplyInv'
    <2>1. SupplyInv
      BY DEF MatchInv
    <2>2. QED
      BY <2>1, Syncing
  <1>2. /\ UNCHANGED <<depot, releases, dqueue, dpc, dlocal, resource, pqueue, ppc, plocal>>
        /\ version' = [version EXCEPT ![k] = w] /\ o.queued
    BY DEF SyncVersion, depotVars
  <1>3. o \in OwnedVersion /\ o.exists
    BY <1>1, <1>2 DEF SupplyInv, SupplyTypeOK, MatchInv, VersionsOwned, NoVersion
  <1>4. /\ o.deleting => w = NoVersion
        /\ ~o.deleting => w.exists /\ ~w.deleting
        /\ ~NoVersion.exists /\ ~NoVersion.deleting
    BY <1>3 DEF OwnedVersion, NoVersion
  <1> HIDE DEF w
  <1>5. version'[k] = w /\ \A j \in Key : j # k => version'[j] = version[j]
    BY <1>1, <1>2 DEF SupplyInv, SupplyTypeOK
  <1>6. \A j \in Key :
             /\ version'[j].exists => version[j].exists
             /\ version[j].exists /\ ~version[j].deleting => version'[j].exists /\ ~version'[j].deleting
             /\ version'[j].deleting => version[j].deleting
    BY <1>3, <1>4, <1>5
  <1>7. VersionsOwned'
    BY <1>2, <1>3, <1>4, <1>5 DEF MatchInv, VersionsOwned
  <1>8. \A n \in Provider : resource'[n].exists = resource[n].exists /\ SameSpec(resource'[n], resource[n])
    BY <1>2 DEF SameSpec
  <1>9. QED
    BY <1>1, <1>2, <1>6, <1>7, <1>8, RestOn

\* A Version the worker deletes is not among the newest on offer.
LEMMA DoomedIsOld ==
  ASSUME MatchInv, ppc = "delete", NEW k \in plocal.doomed, k \in Key
  PROVE  \/ k[2] \notin Newest(Offered(k[1]), resource[k[1]].config.limit)
         \/ k[3] \notin plocal.provider.config.platforms
  <1>0. PICK n : n = plocal.name
    OBVIOUS
  <1> DEFINE c == resource[n].config
             R == resource[n].versions
             O == Offered(n)
  <1>1. /\ n \in Provider /\ Working(n) /\ resource[n].exists /\ SupplyInv /\ OnTheWay(n) /\ k[1] = n
    BY <1>0, RoundFacts DEF MatchInv, RoundKnows
  <1>2. plocal.provider.config = c
    BY <1>1 DEF OnTheWay, Waiting
  <1>3. O = Published(n) \cap c.accepts
    BY DEF Offered, Matching, Published
  <1>4. R \subseteq O
    BY <1>1, <1>3 DEF OnTheWay, Listed, Known
  <1>5. O \in SUBSET Published(n)
    BY <1>3
  <1>6. IsFiniteSet(O) /\ c.limit \in Nat /\ R \in Lists(n)
    BY <1>1, <1>5, ListsOK, LimitOK DEF OnTheWay, Lists
  <1> SUFFICES ASSUME k[2] \in Newest(O, c.limit), k[3] \in c.platforms PROVE FALSE
    BY <1>1, <1>2
  <1>7. k[2] \in O /\ Cardinality({w \in O : w > k[2]}) < c.limit
    BY DEF Newest
  <1>8. Out(k[2], R, c.limit)
    BY <1>1, <1>3, <1>6, <1>7 DEF OnTheWay, Ordered, Gone
  <1> HIDE DEF c, R, O
  <1>9. Out(k[2], O, c.limit)
    BY <1>4, <1>6, <1>8, OutSuperset
  <1>10. {w \in O : w > k[2]} \in SUBSET O
    OBVIOUS
  <1>11. Cardinality({w \in O : w > k[2]}) \in Nat
    BY <1>6, <1>10, FS_Subset, FS_CardinalityType
  <1>12. QED
    BY <1>6, <1>7, <1>9, <1>11 DEF Out

LEMMA MatchStep ==
  ASSUME PatientOperator, OwnLabels, OneConfigEach, MatchInv, [SupplyNext]_supplyVars
  PROVE  MatchInv'
  <1>1. CASE UNCHANGED supplyVars
    <2>1. /\ UNCHANGED <<depot, releases, dqueue, dpc, dlocal, dbudget, resource>>
          /\ UNCHANGED <<version, pqueue, ppc, plocal>>
      BY <1>1 DEF supplyVars, depotVars, providerVars
    <2>2. SupplyInv'
      BY <1>1, SupplyStep DEF MatchInv
    <2>3. VersionsOwned' /\ \A p : SameSpec(p, p)
      BY <2>1 DEF MatchInv, VersionsOwned, SameSpec
    <2>4. QED
      BY <2>1, <2>2, <2>3, RestOn
  <1>2. CASE SupplyNext
    BY <1>2, MatchDepot, MatchReconciling, MatchForcing, MatchTrimming, MatchReading, MatchOwning, MatchNoting,
       MatchRemoving, MatchDeleting, MatchInterrupting, MatchSyncing DEF SupplyNext, ProviderStep
  <1>3. QED
    BY <1>1, <1>2

LEMMA MatchStart ==
  ASSUME SupplyInit
  PROVE  MatchInv
  <1>1. SupplyInv
    BY SupplyStart
  <1>2. DepotPatient /\ VersionsOwned /\ DepotKnows /\ RoundKnows
    BY DEF SupplyInit, DepotInit, DepotPatient, VersionsOwned, NoVersion, DepotKnows, RoundKnows
  <1>3. ASSUME NEW n \in Provider PROVE OnTheWay(n)
    <2>1. resource[n] = NoResource /\ ~NoResource.exists /\ NoResource.versions = {}
      BY DEF SupplyInit, DepotInit, NoResource, Resource
    <2>2. Owned(n) = {} /\ ~Working(n)
      BY DEF SupplyInit, Owned, NoVersion, Working
    <2>3. Listed(n)
      BY <2>1, <2>2 DEF Listed, Known
    <2>4. QED
      BY <2>1, <2>2, <2>3 DEF OnTheWay, Waiting, Ordered, Supplied
  <1>4. QED
    BY <1>1, <1>2, <1>3 DEF MatchInv

-----------------------------------------------------------------------------
\* The Versions and the list

\* For every Depot and every list of releases, as long as each Provider has one
\* config, is labelled with its own name, and the Depot is edited only while
\* everything rests: whatever is published, forced or interrupted while the
\* controllers run, once they rest the Versions of a Provider are exactly the listed
\* versions on its platforms and none of them terminates.
THEOREM VersionsMatch ==
  ASSUME PatientOperator, OwnLabels, OneConfigEach
  PROVE  SupplySpec => []VersionsMatchProvider
  <1>1. MatchInv => VersionsMatchProvider
    <2> SUFFICES ASSUME MatchInv, AllRest, NEW n \in Provider, resource[n].exists
                 PROVE  /\ {k \in Key : k[1] = n /\ version[k].exists} = Desired(n, resource[n])
                        /\ \A k \in Desired(n, resource[n]) : ~version[k].deleting
      BY DEF VersionsMatchProvider
    <2>1. QED
      BY RestIsEven DEF Even, Has, Owned
  <1>2. SupplyInit => MatchInv
    BY MatchStart
  <1>3. MatchInv /\ [SupplyNext]_supplyVars => MatchInv'
    BY MatchStep
  <1>4. QED
    BY <1>1, <1>2, <1>3, PTL DEF SupplySpec

\* Under the same hypotheses, a Version that is taken away was on a platform that
\* is not configured, or as many newer releases are on offer as the history limit
\* allows: no order of the steps of the two controllers trims one of the newest.
THEOREM NewestAreKept ==
  ASSUME PatientOperator, OwnLabels, OneConfigEach
  PROVE  SupplySpec => NewestKept
  <1> DEFINE Lost(k) == /\ version[k].exists /\ ~version[k].deleting
                        /\ ~version'[k].exists \/ version'[k].deleting
             Old(k) == \/ k[2] \notin Newest(Offered(k[1]), resource[k[1]].config.limit)
                       \/ k[3] \notin plocal.provider.config.platforms
  <1>1. ASSUME MatchInv, [SupplyNext]_supplyVars, NEW k \in Key, Lost(k) PROVE Old(k)
    <2>0. SupplyInv /\ version \in [Key -> OwnedVersion] /\ version[k] \in OwnedVersion
      BY <1>1 DEF MatchInv, SupplyInv, SupplyTypeOK
    <2>1. version' # version
      BY <1>1
    <2>2. CASE WriteOwned
      <3>1. PICK j : version' = [version EXCEPT ![j] = Rewritten(@, plocal.provider.config)]
        BY <2>1, <2>2 DEF WriteOwned
      <3>2. QED
        BY <1>1, <2>0, <3>1 DEF Rewritten, OwnedVersion
    <2>3. CASE DeleteStale
      <3>1. PICK j : j = CHOOSE i \in plocal.doomed : TRUE
        OBVIOUS
      <3>2. version' = [version EXCEPT ![j] = DeletedVersion(@)] /\ ppc = "delete"
        BY <2>1, <2>3, <3>1 DEF DeleteStale
      <3>3. j = k
        BY <1>1, <2>0, <3>2
      <3>4. plocal.doomed # {}
        BY <2>0, <3>2 DEF SupplyInv, WorkersBusy
      <3>5. k \in plocal.doomed
        BY <3>1, <3>3, <3>4, Zenon
      <3>6. QED
        BY <1>1, <3>2, <3>5, DoomedIsOld
    <2>4. ASSUME NEW j \in Key, SyncVersion(j) PROVE FALSE
      BY <1>1, <2>0, <2>4 DEF SyncVersion, OwnedVersion
    <2>5. ~DepotSide /\ ~UNCHANGED supplyVars
      BY <2>1 DEF DepotSide, supplyVars, providerVars
    <2>6. ASSUME NEW n \in Provider PROVE ~ProviderReconcile(n) /\ ~ForceProvider(n)
      BY <2>1 DEF ProviderReconcile, ForceProvider
    <2>7. ~TrimProvider /\ ~ReadOwned /\ ~ListStale
      BY <2>1 DEF TrimProvider, ReadOwned, ListStale
    <2>8. ~ProviderResetForceSync /\ ~ProviderStatus /\ ~ProviderInterrupted
      BY <2>1 DEF ProviderResetForceSync, ProviderStatus, ProviderInterrupted
    <2>9. QED
      BY <1>1, <2>2, <2>3, <2>4, <2>5, <2>6, <2>7, <2>8 DEF SupplyNext, ProviderStep
  <1>2. MatchInv /\ [SupplyNext]_supplyVars => [\A k \in Key : Lost(k) => Old(k)]_supplyVars
    BY <1>1
  <1>3. SupplyInit => MatchInv
    BY MatchStart
  <1>4. MatchInv /\ [SupplyNext]_supplyVars => MatchInv'
    BY MatchStep
  <1>5. QED
    BY <1>2, <1>3, <1>4, PTL DEF SupplySpec, NewestKept
=============================================================================
