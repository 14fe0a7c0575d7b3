------------------------ MODULE RegistryServerProofs ------------------------
(***************************************************************************)
(* What the registry server delivers: the proofs of DeliveredOrRaced,      *)
(* CountedOnce and MirrorAgrees.                                           *)
(***************************************************************************)
EXTENDS RegistryServer, SequenceTheorems, WellFoundedInduction, TLAPS

USE ServerConstants

-----------------------------------------------------------------------------
\* Sessions

LEMMA NoSessionFacts ==
  /\ NoSession \in Sessions /\ NoUrl \in Urls
  /\ NoSession.pc = "start" /\ NoSession.counted = 0
  BY DEF NoSession, NoUrl, Sessions, Urls, Sums, Uncounted, Counted

-----------------------------------------------------------------------------
\* Lookups

\* The positions of a list that match have a first one.
LEMMA MinExists ==
  ASSUME NEW S \in SUBSET Nat, S # {}
  PROVE  Min(S) \in S
  <1>1. PICK e \in S : \A f \in S : ~(<<f, e>> \in OpToRel(<, Nat))
    BY NatLessThanWellFounded, WFMin, Zenon
  <1>2. \A f \in S : e <= f
    <2> TAKE f \in S
    <2>1. e \in Nat /\ f \in Nat
      OBVIOUS
    <2>2. ASSUME f < e PROVE FALSE
      <3> DEFINE pair == <<f, e>>
      <3>1. pair \in Nat \X Nat /\ pair[1] < pair[2]
        BY <2>1, <2>2
      <3>2. QED
        BY <1>1, <3>1 DEF OpToRel
    <2>3. QED
      BY <2>1, <2>2
  <1>3. QED
    BY <1>1, <1>2 DEF Min

\* A lookup gives nothing, or one of the Versions that match.
LEMMA FirstIs ==
  ASSUME ServerTypeOK, NEW S \in SUBSET DOMAIN versions
  PROVE  \/ S = {} /\ First(S) = NoUrl
         \/ Min(S) \in S /\ First(S) = versions[Min(S)] /\ First(S) \in ServerVersion
  <1>1. DOMAIN versions \subseteq Nat
    BY DEF ServerTypeOK
  <1>2. CASE S = {}
    BY <1>2 DEF First
  <1>3. CASE S # {}
    <2>1. Min(S) \in S
      BY <1>1, <1>3, MinExists
    <2>2. First(S) = versions[Min(S)]
      BY <1>3 DEF First
    <2>3. versions[Min(S)] \in ServerVersion
      BY <2>1 DEF ServerTypeOK
    <2>4. QED
      BY <2>1, <2>2, <2>3
  <1>4. QED
    BY <1>2, <1>3

\* What a Version that has a file gives a session.
LEMMA Offered ==
  ASSUME NEW v \in ServerVersion \cup {NoUrl}, v.file # NoFile
  PROVE  /\ v \in ServerVersion
         /\ [file |-> v.file, sum |-> v.sum] \in Urls
         /\ [file |-> v.file, sum |-> v.sum].file \in DOMAIN Files0
         /\ v.presign \in {"off", "fallback", "strict"} /\ v.signs \in BOOLEAN
  BY DEF NoUrl, ServerVersion, Urls

LEMMA LookedUp ==
  ASSUME ServerTypeOK
  PROVE  /\ moduleVersion \in ServerVersion \cup {NoUrl}
         /\ getProviderVersionResource \in ServerVersion \cup {NoUrl}
         /\ \A n, p : LET v == findMirrorProviderVersion(n, p) IN
              /\ v \in ServerVersion \cup {NoUrl}
              /\ v # NoUrl => v.file # NoFile
  <1>1. moduleVersion \in ServerVersion \cup {NoUrl}
    BY FirstIs DEF moduleVersion
  <1>2. getProviderVersionResource \in ServerVersion \cup {NoUrl}
    BY FirstIs DEF getProviderVersionResource
  <1>3. ASSUME NEW n, NEW p
        PROVE  LET v == findMirrorProviderVersion(n, p) IN
                 v \in ServerVersion \cup {NoUrl} /\ (v # NoUrl => v.file # NoFile)
    <2> DEFINE S == mirrorOf(n, p)
    <2>1. S \in SUBSET DOMAIN versions /\ \A i \in S : versions[i].file # NoFile
      BY DEF mirrorOf, mirrorVersions
    <2> HIDE DEF S
    <2>2. \/ First(S) = NoUrl
          \/ First(S) \in ServerVersion /\ First(S).file # NoFile
      BY <2>1, FirstIs
    <2>3. QED
      BY <2>2 DEF findMirrorProviderVersion, S
  <1>4. QED
    BY <1>1, <1>2, <1>3

\* The Versions of a mirror page.
LEMMA OneOfEach ==
  ASSUME ServerTypeOK, NamedApart, NEW n, NEW p, NEW i \in mirrorOf(n, p)
  PROVE  /\ i \in DOMAIN versions
         /\ mirrorOf(n, p) = {i} /\ Min(mirrorOf(n, p)) = i /\ Max(mirrorOf(n, p)) = i
  <1>1. i \in DOMAIN versions /\ i \in Nat
    BY DEF mirrorOf, mirrorVersions, ServerTypeOK
  <1>2. ASSUME NEW j \in mirrorOf(n, p) PROVE j = i
    <2>1. j \in DOMAIN versions /\ SameName(versions[i], versions[j])
      BY DEF mirrorOf, mirrorVersions, SameName
    <2>2. QED
      BY <1>1, <2>1 DEF NamedApart
  <1>3. mirrorOf(n, p) = {i}
    BY <1>2
  <1>4. Min({i}) = i /\ Max({i}) = i
    BY <1>1 DEF Min, Max
  <1>5. QED
    BY <1>1, <1>3, <1>4

\* A page lists, for every platform it has, the file of a Version of it.
LEMMA ArchiveIs ==
  ASSUME ServerTypeOK, NamedApart, NEW n, NEW p \in DOMAIN mirrorArchives(n)
  PROVE  \E i \in mirrorOf(n, p) :
            /\ mirrorArchives(n)[p].file = versions[i].file
            /\ mirrorArchives(n)[p].sum = versions[i].sum
  <1> DEFINE D == {versions[i].platform : i \in {j \in mirrorVersions : versions[j].number = n}}
             M(q) == Max(mirrorOf(n, q))
  <1>1. /\ mirrorArchives(n) = [q \in D |-> [file |-> versions[M(q)].file, sum |-> versions[M(q)].sum]]
        /\ p \in D
    BY DEF mirrorArchives
  <1>2. PICK i \in mirrorOf(n, p) : TRUE
    BY <1>1 DEF mirrorOf
  <1>3. M(p) = i
    BY OneOfEach
  <1> HIDE DEF D, M
  <1>4. mirrorArchives(n)[p] = [file |-> versions[i].file, sum |-> versions[i].sum]
    BY <1>1, <1>3
  <1>5. QED
    BY <1>4

LEMMA ArchivesTyped ==
  ASSUME ServerTypeOK, NamedApart, NEW n, NEW p \in DOMAIN mirrorArchives(n)
  PROVE  LET u == mirrorArchives(n)[p] IN [file |-> u.file, sum |-> u.sum] \in Urls
  <1>1. PICK i \in mirrorOf(n, p) : /\ mirrorArchives(n)[p].file = versions[i].file
                                    /\ mirrorArchives(n)[p].sum = versions[i].sum
    BY ArchiveIs
  <1>2. versions[i] \in ServerVersion
    BY OneOfEach DEF ServerTypeOK
  <1>3. QED
    BY <1>1, <1>2 DEF ServerVersion, Urls

-----------------------------------------------------------------------------
\* The steps of a download

\* The part of the invariant that is about the session.
SessionInv ==
    session \in Sessions /\ Located /\ Compared /\ CountedAt /\ DeliveredOrRaced

\* A request that is refused.
LEMMA AbortKeeps ==
  ASSUME Abort
  PROVE  SessionInv'
  BY NoSessionFacts DEF Abort, SessionInv, Located, Compared, CountedAt, DeliveredOrRaced,
     Counted, Uncounted

\* The way to the first lookup, or between two: nothing is located yet.
Asking == {"start", "locate", "metadata", "sums", "signature", "download", "archives", "serve"}

\* A step from one request to the next.
LEMMA AskKeeps ==
  ASSUME ServerInv, session.pc \in Asking,
         \/ \E p \in Asking : Go(p)
         \/ \E p \in Asking : \E v : /\ [file |-> v.file, sum |-> v.sum] \in Urls
                                     /\ Give(p, "promised", v) \/ Give(p, "sums", v)
  PROVE  SessionInv'
  <1>0. session \in Sessions /\ session.counted = 0
    BY DEF ServerInv, ServerTypeOK, CountedAt, Asking, Counted
  <1>1. session' \in Sessions /\ session'.pc \in Asking /\ session'.counted = 0
    <2>1. ASSUME NEW p \in Asking, Go(p)
          PROVE  session' \in Sessions /\ session'.pc \in Asking /\ session'.counted = 0
      BY <1>0, <2>1 DEF Go, Asking, Uncounted, Sessions
    <2>2. ASSUME NEW p \in Asking, NEW v, [file |-> v.file, sum |-> v.sum] \in Urls,
                 Give(p, "promised", v) \/ Give(p, "sums", v)
          PROVE  session' \in Sessions /\ session'.pc \in Asking /\ session'.counted = 0
      <3> DEFINE u == [file |-> v.file, sum |-> v.sum]
                 m == [session EXCEPT !.pc = p, !.promised = u]
                 n == [session EXCEPT !.pc = p, !.sums = u]
      <3>1. u \in Urls /\ p \in Uncounted
        BY <2>2 DEF Asking, Uncounted
      <3>2. session' = m \/ session' = n
        BY <2>2 DEF Give
      <3> HIDE DEF u
      <3>3. m \in Sessions /\ m.pc = p /\ m.counted = 0
        BY <1>0, <3>1 DEF Sessions
      <3>4. n \in Sessions /\ n.pc = p /\ n.counted = 0
        BY <1>0, <3>1 DEF Sessions
      <3> HIDE DEF m, n
      <3>5. QED
        BY <3>2, <3>3, <3>4
    <2>3. QED
      BY <2>1, <2>2
  <1>2. QED
    BY <1>1 DEF SessionInv, Located, Compared, CountedAt, DeliveredOrRaced, Counted, Asking

\* The start of serveProviderVersionDownload, and the end of the lookup of a
\* module.
LEMMA LocateKeeps ==
  ASSUME ServerInv, session.pc \in Asking, NEW v \in ServerVersion, v.file # NoFile,
         Resolve(v) \/ Give("wrapper", "url", v)
  PROVE  SessionInv'
  <1> DEFINE u == [file |-> v.file, sum |-> v.sum]
             p == IF v.presign = "off" THEN "redirect" ELSE "presign"
             m == [session EXCEPT !.pc = p, !.url = u, !.presign = v.presign, !.signs = v.signs]
             n == [session EXCEPT !.pc = "wrapper", !.url = u]
  <1>0. session \in Sessions /\ session.counted = 0
    BY DEF ServerInv, ServerTypeOK, CountedAt, Asking, Counted
  <1>1. /\ u \in Urls /\ u.file \in DOMAIN Files0 /\ p \in {"redirect", "presign"}
        /\ v.presign \in {"off", "fallback", "strict"} /\ v.signs \in BOOLEAN
    BY Offered
  <1>2. session' = m \/ session' = n
    BY DEF Resolve, Give
  <1> HIDE DEF u, p
  <1>3. m \in Sessions /\ m.pc \in {"redirect", "presign"} /\ m.counted = 0 /\ m.url = u
    BY <1>0, <1>1 DEF Sessions, Uncounted
  <1>4. n \in Sessions /\ n.pc = "wrapper" /\ n.counted = 0 /\ n.url = u
    BY <1>0, <1>1 DEF Sessions, Uncounted
  <1> HIDE DEF m, n
  <1>5. QED
    BY <1>1, <1>2, <1>3, <1>4 DEF SessionInv, Located, Compared, CountedAt, DeliveredOrRaced, Counted

\* The steps that count a download.
LEMMA CountKeeps ==
  ASSUME ServerInv, files' = files, NEW p \in {"proxy", "presigned"},
         session.pc \in {"wrapper", "redirect", "sign"},
         p = "presigned" => session.pc = "sign",
         session' = [session EXCEPT !.pc = p, !.counted = @ + 1]
  PROVE  SessionInv'
  <1>0. /\ session \in Sessions /\ session.counted = 0
        /\ session.url.file \in DOMAIN Files0
    BY DEF ServerInv, ServerTypeOK, CountedAt, Located, Counted
  <1>1. /\ session' \in Sessions /\ session'.pc = p /\ session'.counted = 1
        /\ session'.url = session.url /\ session'.raced = session.raced
    <2> DEFINE c == session.counted + 1
    <2>1. session' = [session EXCEPT !.pc = p, !.counted = c] /\ c = 1 /\ c \in 0..1 /\ p \in Counted
      BY <1>0 DEF Counted
    <2> HIDE DEF c
    <2>2. QED
      BY <1>0, <2>1 DEF Sessions
  <1>2. QED
    BY <1>0, <1>1 DEF ServerInv, SessionInv, Located, Compared, CountedAt, DeliveredOrRaced, Counted

\* The steps that compare the stored checksum with the recorded one.
LEMMA CompareKeeps ==
  ASSUME ServerInv, files' = files, NEW p \in {"sign", "open"},
         IF p = "sign" THEN session.pc = "presign" ELSE session.pc = "proxy",
         files[session.url.file] = session.url.sum,
         session' = [session EXCEPT !.pc = p, !.raced = FALSE]
  PROVE  SessionInv'
  <1>0. /\ session \in Sessions /\ session.counted = IF session.pc = "proxy" THEN 1 ELSE 0
        /\ session.url.file \in DOMAIN Files0
    BY DEF ServerInv, ServerTypeOK, CountedAt, Located, Counted
  <1>1. /\ session' \in Sessions /\ session'.pc = p /\ session'.counted = session.counted
        /\ session'.url = session.url
    BY <1>0 DEF Sessions, Counted, Uncounted
  <1>2. QED
    BY <1>0, <1>1 DEF SessionInv, Located, Compared, CountedAt, DeliveredOrRaced, Counted

\* The steps that read the file.
LEMMA ReadKeeps ==
  ASSUME ServerInv, files' = files, session.pc \in {"presigned", "open"},
         session' = [session EXCEPT !.pc = "body", !.body = files[session.url.file]]
  PROVE  SessionInv'
  <1> DEFINE c == files[session.url.file]
  <1>0. /\ session \in Sessions /\ session.counted = 1
        /\ session.url.file \in DOMAIN Files0 /\ c \in Sums
    BY DEF ServerInv, ServerTypeOK, CountedAt, Located, Counted
  <1>1. c = session.url.sum \/ session.raced
    BY DEF ServerInv, Compared
  <1>2. session' = [session EXCEPT !.pc = "body", !.body = c]
    OBVIOUS
  <1> HIDE DEF c
  <1>3. /\ session' \in Sessions /\ session'.pc = "body" /\ session'.counted = 1
        /\ session'.url = session.url /\ session'.raced = session.raced /\ session'.body = c
    BY <1>0, <1>2 DEF Sessions, Counted
  <1>4. QED
    BY <1>0, <1>1, <1>3 DEF SessionInv, Located, Compared, CountedAt, DeliveredOrRaced, Counted

\* The steps that only move on.
LEMMA MoveKeeps ==
  ASSUME ServerInv,
         \/ session.pc \in {"presign", "sign"} /\ Go("redirect")
         \/ session.pc = "body" /\ Go("accepted")
  PROVE  SessionInv'
  <1>0. /\ session \in Sessions
        /\ session.counted = IF session.pc = "body" THEN 1 ELSE 0
        /\ session.url.file \in DOMAIN Files0
    BY DEF ServerInv, ServerTypeOK, CountedAt, Located, Counted
  <1>1. /\ session' \in Sessions /\ session'.counted = session.counted
        /\ session'.url = session.url /\ session'.raced = session.raced
        /\ session'.body = session.body
        /\ session'.pc = IF session.pc = "body" THEN "accepted" ELSE "redirect"
    BY <1>0 DEF Sessions, Counted, Uncounted, Go
  <1>2. QED
    BY <1>0, <1>1 DEF ServerInv, SessionInv, Located, Compared, CountedAt, DeliveredOrRaced, Counted

\* Every step of a download.
LEMMA DownloadStep ==
  ASSUME ServerInv, Download \/ Again
  PROVE  SessionInv' /\ versions' = versions /\ files' = files
  <1>0. ServerTypeOK /\ NamedApart
    BY DEF ServerInv
  <1>1. versions' = versions /\ files' = files
    BY DEF Download, Again, ListModuleVersions, ListProviderVersions, LocateModule, ReadWrapper,
       PackageMetadata, PackageSums, PackageSignature, PackageDownload, MirrorIndex, MirrorArchives,
       MirrorServe, PresignCheck, PresignObject, Redirect, FetchPresigned, ProxyCheck, ProxyOpen,
       Accept, Quiet, cluster
  <1> SUFFICES SessionInv'
    BY <1>1
  <1>2. CASE ListModuleVersions \/ ListProviderVersions \/ MirrorIndex
    BY <1>2, AbortKeeps, AskKeeps DEF ListModuleVersions, ListProviderVersions, MirrorIndex, At, Asking
  <1>3. CASE LocateModule
    <2> DEFINE v == moduleVersion
    <2>1. v \in ServerVersion \cup {NoUrl} /\ session.pc \in Asking
      BY <1>0, <1>3, LookedUp DEF LocateModule, At, Asking
    <2>2. Abort \/ (v.file # NoFile /\ Give("wrapper", "url", v))
      BY <1>3 DEF LocateModule
    <2> HIDE DEF v
    <2>3. QED
      BY <2>1, <2>2, AbortKeeps, LocateKeeps, Offered
  <1>4. CASE ReadWrapper
    BY <1>1, <1>4, AbortKeeps, CountKeeps DEF ReadWrapper, At
  <1>5. CASE PackageMetadata \/ PackageSums
    <2> DEFINE v == getProviderVersionResource
    <2>1. v \in ServerVersion \cup {NoUrl} /\ session.pc \in Asking
      BY <1>0, <1>5, LookedUp DEF PackageMetadata, PackageSums, At, Asking
    <2>2. Abort \/ (v.file # NoFile /\ (Give("sums", "promised", v) \/ Give("signature", "sums", v)))
      BY <1>5 DEF PackageMetadata, PackageSums
    <2> HIDE DEF v
    <2>3. "sums" \in Asking /\ "signature" \in Asking
      BY DEF Asking
    <2>4. QED
      BY <2>1, <2>2, <2>3, AbortKeeps, AskKeeps, Offered
  <1>6. CASE PackageSignature
    BY <1>6, AbortKeeps, AskKeeps DEF PackageSignature, At, Asking
  <1>7. CASE PackageDownload
    <2> DEFINE v == getProviderVersionResource
    <2>1. v \in ServerVersion \cup {NoUrl} /\ session.pc \in Asking
      BY <1>0, <1>7, LookedUp DEF PackageDownload, At, Asking
    <2>2. Abort \/ (v.file # NoFile /\ Resolve(v))
      BY <1>7 DEF PackageDownload
    <2> HIDE DEF v
    <2>3. QED
      BY <2>1, <2>2, AbortKeeps, LocateKeeps, Offered
  <1>8. CASE MirrorArchives
    <2>1. session.pc = "archives"
      BY <1>8 DEF MirrorArchives, At
    <2>2. CASE Abort
      BY <2>2, AbortKeeps
    <2>3. CASE ~Abort
      <3> DEFINE A == mirrorArchives(want.number)
                 u == A[want.platform]
      <3>1. want.platform \in DOMAIN A /\ Give("serve", "promised", u)
        BY <1>8, <2>3 DEF MirrorArchives
      <3>2. [file |-> u.file, sum |-> u.sum] \in Urls
        BY <1>0, <3>1, ArchivesTyped
      <3> HIDE DEF u
      <3>3. session.pc \in Asking /\ "serve" \in Asking
        BY <2>1 DEF Asking
      <3>4. QED
        BY <3>1, <3>2, <3>3, AskKeeps
    <2>4. QED
      BY <2>2, <2>3
  <1>9. CASE MirrorServe
    <2> DEFINE v == findMirrorProviderVersion(want.number, want.platform)
    <2>1. /\ v \in ServerVersion \cup {NoUrl} /\ session.pc \in Asking
          /\ v # NoUrl => v.file # NoFile
      BY <1>0, <1>9, LookedUp DEF MirrorServe, At, Asking
    <2>2. Abort \/ (v # NoUrl /\ Resolve(v))
      BY <1>9 DEF MirrorServe
    <2> HIDE DEF v
    <2>3. QED
      BY <2>1, <2>2, AbortKeeps, LocateKeeps, Offered
  <1>10. CASE PresignCheck
    BY <1>1, <1>10, AbortKeeps, CompareKeeps, MoveKeeps DEF PresignCheck, NotPresigned, At
  <1>11. CASE PresignObject
    BY <1>1, <1>11, AbortKeeps, CountKeeps, MoveKeeps DEF PresignObject, NotPresigned, At
  <1>12. CASE Redirect
    BY <1>1, <1>12, CountKeeps DEF Redirect, At
  <1>13. CASE FetchPresigned \/ ProxyOpen
    BY <1>1, <1>13, AbortKeeps, ReadKeeps DEF FetchPresigned, ProxyOpen, At
  <1>14. CASE ProxyCheck
    BY <1>1, <1>14, AbortKeeps, CompareKeeps DEF ProxyCheck, At
  <1>15. CASE Accept
    BY <1>15, AbortKeeps, MoveKeeps DEF Accept, At
  <1>16. CASE Again
    BY <1>16, AbortKeeps DEF Again
  <1>17. QED
    BY <1>1, <1>2, <1>3, <1>4, <1>5, <1>6, <1>7, <1>8, <1>9, <1>10, <1>11, <1>12, <1>13, <1>14,
       <1>15, <1>16 DEF Download

-----------------------------------------------------------------------------
\* Meanwhile

\* A file changes under a session, which is then raced.
LEMMA WriteStep ==
  ASSUME ServerInv, NEW w \in Rewrites, Write(w.file, w.content)
  PROVE  ServerInv'
  <1>0. /\ session \in Sessions /\ files \in [DOMAIN Files0 -> Sums]
        /\ w.file \in DOMAIN Files0 /\ w.content \in Sums
    BY DEF ServerInv, ServerTypeOK, Sums
  <1>1. versions' = versions /\ files' = [files EXCEPT ![w.file] = w.content]
    BY DEF Write
  <1>2. /\ session' \in Sessions /\ session'.pc = session.pc /\ session'.url = session.url
        /\ session'.body = session.body /\ session'.counted = session.counted
        /\ session'.raced = (session.raced \/ session.url.file = w.file)
    <2>1. CASE session.url.file = w.file
      <3>1. session' = [session EXCEPT !.raced = TRUE]
        BY <2>1 DEF Write
      <3>2. QED
        BY <1>0, <2>1, <3>1 DEF Sessions
    <2>2. CASE session.url.file # w.file
      <3>1. session' = session
        BY <2>2 DEF Write
      <3>2. session.raced \in BOOLEAN
        BY <1>0 DEF Sessions
      <3>3. QED
        BY <1>0, <2>2, <3>1, <3>2
    <2>3. QED
      BY <2>1, <2>2
  <1>3. ServerTypeOK' /\ NamedApart'
    BY <1>0, <1>1, <1>2 DEF ServerInv, ServerTypeOK, NamedApart
  <1>4. Located' /\ CountedAt' /\ DeliveredOrRaced'
    BY <1>2 DEF ServerInv, Located, CountedAt, DeliveredOrRaced
  <1>5. Compared'
    <2> SUFFICES ASSUME session.pc \in {"sign", "presigned", "open"}, session.url.file # w.file,
                        ~session.raced
                 PROVE  files'[session.url.file] = session.url.sum
      BY <1>2 DEF Compared
    <2>1. files[session.url.file] = session.url.sum /\ session.url.file \in DOMAIN Files0
      BY DEF ServerInv, Compared, Located, Counted
    <2>2. QED
      BY <1>0, <1>1, <2>1
  <1>6. QED
    BY <1>3, <1>4, <1>5 DEF ServerInv

\* A list without one of its entries.
LEMMA RemoveAtIs ==
  ASSUME NEW S, NEW s \in Seq(S), NEW i \in DOMAIN s
  PROVE  /\ RemoveAt(s, i) \in Seq(S) /\ Len(RemoveAt(s, i)) = Len(s) - 1
         /\ \A j \in 1..Len(s) - 1 : RemoveAt(s, i)[j] = s[IF j < i THEN j ELSE j + 1]
  <1> DEFINE a == SubSeq(s, 1, i - 1)
             b == SubSeq(s, i + 1, Len(s))
  <1>1. i \in 1..Len(s) /\ Len(s) \in Nat
    OBVIOUS
  <1>2. a \in Seq(S) /\ Len(a) = i - 1 /\ \A j \in 1..i - 1 : a[j] = s[j]
    BY <1>1
  <1>3. b \in Seq(S) /\ Len(b) = Len(s) - i /\ \A j \in 1..Len(s) - i : b[j] = s[i + j]
    BY <1>1
  <1>4. RemoveAt(s, i) = a \o b
    BY DEF RemoveAt
  <1> HIDE DEF a, b
  <1>5. /\ a \o b \in Seq(S) /\ Len(a \o b) = Len(s) - 1
        /\ \A j \in 1..Len(s) - 1 : (a \o b)[j] = IF j < i THEN a[j] ELSE b[j - (i - 1)]
    BY <1>1, <1>2, <1>3
  <1>6. ASSUME NEW j \in 1..Len(s) - 1 PROVE (a \o b)[j] = s[IF j < i THEN j ELSE j + 1]
    <2>1. CASE j < i
      BY <1>1, <1>2, <1>5, <2>1
    <2>2. CASE ~(j < i)
      <3>1. j - (i - 1) \in 1..Len(s) - i /\ i + (j - (i - 1)) = j + 1
        BY <1>1, <2>2
      <3>2. QED
        BY <1>3, <1>5, <2>2, <3>1
    <2>3. QED
      BY <2>1, <2>2
  <1>7. QED
    BY <1>4, <1>5, <1>6

\* The controllers record, retract and remove Versions; no name appears twice.
LEMMA VersionStep ==
  ASSUME ServerInv, NEW i \in DOMAIN versions, Record(i) \/ Unsync(i) \/ RemoveVersion(i)
  PROVE  ServerInv'
  <1>0. versions \in Seq(ServerVersion) /\ files' = files /\ session' = session
    BY DEF ServerInv, ServerTypeOK, Record, Unsync, RemoveVersion
  <1>1. versions' \in Seq(ServerVersion) /\ NamedApart'
    <2>1. CASE Record(i) \/ Unsync(i)
      <3> DEFINE n == versions'[i]
      <3>1. n \in ServerVersion /\ SameName(n, versions[i])
        <4> DEFINE v == versions[i]
                   c == files[v.file]
        <4>1. v \in ServerVersion
          BY <1>0
        <4>2. CASE Record(i)
          <5>1. c \in Sums
            BY <4>1, <4>2 DEF Record, ServerInv, ServerTypeOK, ServerVersion
          <5>2. n = [v EXCEPT !.sum = c, !.synced = TRUE]
            BY <1>0, <4>2 DEF Record
          <5> HIDE DEF v, c
          <5>3. QED
            BY <4>1, <5>1, <5>2 DEF ServerVersion, SameName, v
        <4>3. CASE Unsync(i)
          <5>1. n = [v EXCEPT !.synced = FALSE]
            BY <1>0, <4>3 DEF Unsync
          <5> HIDE DEF v, c
          <5>2. QED
            BY <4>1, <5>1 DEF ServerVersion, SameName, v
        <4>4. QED
          BY <2>1, <4>2, <4>3
      <3>2. /\ DOMAIN versions' = DOMAIN versions /\ Len(versions') = Len(versions)
            /\ \A j \in DOMAIN versions : j # i => versions'[j] = versions[j]
            /\ versions' = [j \in 1..Len(versions) |-> versions'[j]]
        BY <1>0, <2>1 DEF Record, Unsync
      <3>3. \A j \in DOMAIN versions : versions'[j] \in ServerVersion /\ SameName(versions'[j], versions[j])
        BY <1>0, <3>1, <3>2 DEF SameName
      <3>4. versions' \in Seq(ServerVersion)
        BY <1>0, <3>2, <3>3
      <3>5. NamedApart'
        BY <3>2, <3>3 DEF ServerInv, NamedApart, SameName
      <3>6. QED
        BY <3>4, <3>5
    <2>2. CASE RemoveVersion(i)
      <3> DEFINE old(j) == IF j < i THEN j ELSE j + 1
      <3>1. versions' = RemoveAt(versions, i)
        BY <2>2 DEF RemoveVersion
      <3>2. /\ i \in 1..Len(versions) /\ Len(versions) \in Nat
            /\ versions' \in Seq(ServerVersion) /\ Len(versions') = Len(versions) - 1
        BY <1>0, <3>1, RemoveAtIs
      <3>3. \A j \in 1..Len(versions) - 1 : versions'[j] = versions[old(j)]
        BY <1>0, <3>1, RemoveAtIs
      <3>4. \A j, k \in 1..Len(versions) - 1 : /\ old(j) \in 1..Len(versions)
                                               /\ old(j) = old(k) => j = k
        BY <3>2
      <3> HIDE DEF old
      <3>5. DOMAIN versions = 1..Len(versions) /\ DOMAIN versions' = 1..Len(versions) - 1
        BY <1>0, <3>2
      <3>6. NamedApart'
        <4> SUFFICES ASSUME NEW j \in 1..Len(versions) - 1, NEW k \in 1..Len(versions) - 1,
                            SameName(versions'[j], versions'[k])
                     PROVE  j = k
          BY <3>5 DEF NamedApart
        <4>1. SameName(versions[old(j)], versions[old(k)])
          BY <3>3
        <4>2. QED
          BY <3>4, <3>5, <4>1 DEF ServerInv, NamedApart
      <3>7. QED
        BY <3>2, <3>6
    <2>3. QED
      BY <2>1, <2>2
  <1>2. QED
    BY <1>0, <1>1 DEF ServerInv, ServerTypeOK, Located, Compared, CountedAt, DeliveredOrRaced

-----------------------------------------------------------------------------
\* The theorems

\* The inductive invariant of the server holds in every reachable state.
THEOREM ServerInvariance == ServerSpec => []ServerInv
  <1>1. ServerInit => ServerInv
    <2> SUFFICES ASSUME ServerInit PROVE ServerInv
      OBVIOUS
    <2>1. ServerTypeOK /\ NamedApart
      BY NoSessionFacts DEF ServerInit, ServerTypeOK, NamedApart
    <2>2. Located /\ Compared /\ CountedAt /\ DeliveredOrRaced
      BY NoSessionFacts DEF ServerInit, Located, Compared, CountedAt, DeliveredOrRaced, Counted
    <2>3. QED
      BY <2>1, <2>2 DEF ServerInv
  <1>2. ServerInv /\ [ServerNext]_serverVars => ServerInv'
    <2> SUFFICES ASSUME ServerInv, [ServerNext]_serverVars PROVE ServerInv'
      OBVIOUS
    <2>1. ASSUME UNCHANGED <<versions, files, session>> PROVE ServerInv'
      BY <2>1 DEF ServerInv, ServerTypeOK, Located, Compared, CountedAt, NamedApart, DeliveredOrRaced
    <2>2. CASE Download \/ Again
      <3>1. SessionInv' /\ versions' = versions /\ files' = files
        BY <2>2, DownloadStep
      <3>2. QED
        BY <3>1 DEF ServerInv, ServerTypeOK, SessionInv, NamedApart
    <2>3. CASE \E w \in Rewrites : Write(w.file, w.content)
      BY <2>3, WriteStep
    <2>4. CASE \E i \in DOMAIN versions : Record(i) \/ Unsync(i) \/ RemoveVersion(i)
      BY <2>4, VersionStep
    <2>5. ASSUME (\E o : EditOwner(o)) \/ (\E b : EditBindings(b))
          PROVE  UNCHANGED <<versions, files, session>>
      BY <2>5 DEF EditOwner, EditBindings
    <2>6. CASE UNCHANGED serverVars
      BY <2>1, <2>6 DEF serverVars, cluster
    <2>7. QED
      BY <2>1, <2>2, <2>3, <2>4, <2>5, <2>6 DEF ServerNext
  <1>3. QED
    BY <1>1, <1>2, PTL DEF ServerSpec

\* For all Versions, files and rewrites: what a client gets has the checksum the
\* Version recorded, unless the file was rewritten between the comparison and the
\* read.
THEOREM Delivery == ServerSpec => []DeliveredOrRaced
  <1>1. ServerInv => DeliveredOrRaced
    BY DEF ServerInv
  <1>2. QED
    BY ServerInvariance, <1>1, PTL

\* recordDownload runs exactly once for every download that is delivered, by
\* whichever of the three ways, and whatever failed before.
THEOREM Counting == ServerSpec => []CountedOnce
  <1>1. ServerInv => CountedOnce
    BY DEF ServerInv, CountedAt, CountedOnce, Counted
  <1>2. QED
    BY ServerInvariance, <1>1, PTL

\* The pages of the mirror agree about every file, for Versions with the names
\* the controllers give them: the last one listed is the first one found.
THEOREM MirrorAgreement == ServerSpec => []MirrorAgrees
  <1>1. ServerInv => MirrorAgrees
    <2> SUFFICES ASSUME ServerInv, NEW n \in mirrorIndex
                 PROVE  /\ DOMAIN mirrorArchives(n) # {}
                        /\ \A p \in DOMAIN mirrorArchives(n) :
                              findMirrorProviderVersion(n, p).file = mirrorArchives(n)[p].file
      BY DEF MirrorAgrees
    <2>0. ServerTypeOK /\ NamedApart
      BY DEF ServerInv
    <2>1. DOMAIN mirrorArchives(n) # {}
      BY DEF mirrorIndex, mirrorArchives
    <2>2. ASSUME NEW p \in DOMAIN mirrorArchives(n)
          PROVE  findMirrorProviderVersion(n, p).file = mirrorArchives(n)[p].file
      <3>1. PICK i \in mirrorOf(n, p) : mirrorArchives(n)[p].file = versions[i].file
        BY <2>0, ArchiveIs
      <3>2. mirrorOf(n, p) # {} /\ Min(mirrorOf(n, p)) = i
        BY <2>0, OneOfEach
      <3>3. findMirrorProviderVersion(n, p) = versions[i]
        BY <3>2 DEF findMirrorProviderVersion, First
      <3>4. QED
        BY <3>1, <3>3
    <2>3. QED
      BY <2>1, <2>2
  <1>2. QED
    BY ServerInvariance, <1>1, PTL
=============================================================================
