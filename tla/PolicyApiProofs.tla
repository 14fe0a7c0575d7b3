-------------------------- MODULE PolicyApiProofs ---------------------------
(***************************************************************************)
(* No edit is lost and no write leaves the scope of its caller, for every  *)
(* number of callers, policies, bindings and writes.                       *)
(*                                                                         *)
(* The resourceVersion carries the argument.  One version of a name is one *)
(* policy and the versions of a name only grow (Was): the policy a caller  *)
(* was shown, the one its handler read and the one it replaces come in     *)
(* this order, so when the first and the last have the same version all    *)
(* three are the same policy.                                              *)
(***************************************************************************)
EXTENDS PolicyApi, TLAPS

Fields == DOMAIN NoCall

\* Versions are drawn from the clock.
Stored ==
    /\ clock \in Nat
    /\ DOMAIN stored = Keys
    /\ \A k \in Keys : /\ stored[k].rv \in Nat /\ stored[k].rv <= clock
                       /\ stored[k] # NoPolicy => stored[k].rv # 0

\* p was stored where s is now, at time t: s is no older, and the same if the
\* versions are.
Was(p, s, t) ==
    /\ p.rv \in Nat \ {0} /\ p.rv <= t
    /\ s # NoPolicy => p.rv <= s.rv
    /\ s.rv = p.rv => s = p

\* What a caller was shown is or was stored.
Seen(seen, st, t) ==
    seen # Nothing => seen.key \in Keys /\ Was(seen.policy, st[seen.key], t)

\* A request under way names the policy its caller was shown.
Asked(r, seen) ==
    /\ DOMAIN r = Fields
    /\ r.pc # "idle" =>
          /\ ~r.granted /\ r.key \in Keys
          /\ r.method \in {"PUT", "DELETE"} =>
                /\ seen # Nothing /\ r.key = seen.key /\ r.ifMatch = seen.policy.rv
                /\ r.method = "PUT" => r.bodyRv = r.ifMatch

\* One about to write has checked the scope of what it read, and read it after
\* its caller did.
Checked(r, seen, st, t, f) ==
    r.pc = "write" =>
        /\ r.method \in {"POST", "PUT", "DELETE"}
        /\ r.method # "DELETE" => policyScopeAuthorized(f, r.binding, Space(r), r.spec)
        /\ r.method # "POST" =>
              /\ policyScopeAuthorized(f, r.binding, Space(r), r.existing.spec)
              /\ Was(r.existing, st[r.key], t)
              /\ seen.policy.rv <= r.existing.rv

Call(r, seen, st, t, f) == Seen(seen, st, t) /\ Asked(r, seen) /\ Checked(r, seen, st, t, f)

ApiInv ==
    /\ Stored
    /\ DOMAIN request = Callers /\ DOMAIN shown = Callers
    /\ \A c \in Callers : Call(request[c], shown[c], stored, clock, flags)

-----------------------------------------------------------------------------
\* Versions

\* What was stored once was stored still when a later policy, or none, is there.
LEMMA WasGrows ==
  ASSUME NEW t \in Nat, NEW p, NEW s, NEW x, Was(p, s, t)
  PROVE  Was(p, [rv |-> t + 1, spec |-> x], t + 1) /\ Was(p, NoPolicy, t)
  BY DEF Was, NoPolicy

\* What is stored was stored.
LEMMA IsWas ==
  ASSUME Stored, NEW k \in Keys, stored[k] # NoPolicy
  PROVE  Was(stored[k], stored[k], clock)
  BY DEF Stored, Was

\* The three ways a step leaves what is stored.
Wrote(k) == \E s : clock' = clock + 1 /\ stored' = [stored EXCEPT ![k] = [rv |-> clock + 1, spec |-> s]]
Removed(k) == clock' = clock /\ stored' = [stored EXCEPT ![k] = NoPolicy]
Left == clock' = clock /\ stored' = stored

Grows == \A k \in Keys : \A p : Was(p, stored[k], clock) => Was(p, stored'[k], clock')

\* Every one of them keeps the order of versions.
LEMMA StoreSteps ==
  ASSUME Stored, Left \/ (\E k \in Keys : Wrote(k) \/ Removed(k))
  PROVE  Stored' /\ Grows
  <1>1. CASE Left
    BY <1>1 DEF Left, Stored, Grows
  <1>2. ASSUME NEW k \in Keys, Wrote(k) PROVE Stored' /\ Grows
    <2>1. PICK s : clock' = clock + 1 /\ stored' = [stored EXCEPT ![k] = [rv |-> clock + 1, spec |-> s]]
      BY <1>2 DEF Wrote
    <2> DEFINE n == [rv |-> clock + 1, spec |-> s]
    <2>2. /\ DOMAIN stored' = Keys /\ stored'[k] = n /\ n.rv = clock + 1
          /\ \A j \in Keys : j # k => stored'[j] = stored[j]
      BY <2>1 DEF Stored
    <2>3. ASSUME NEW j \in Keys, NEW p, Was(p, stored[j], clock) PROVE Was(p, stored'[j], clock')
      <3>1. CASE j = k
        BY <2>1, <2>2, <2>3, <3>1, WasGrows DEF Stored
      <3>2. CASE j # k
        BY <2>1, <2>2, <2>3, <3>2 DEF Stored, Was
      <3>3. QED
        BY <3>1, <3>2
    <2>4. Stored'
      BY <2>1, <2>2 DEF Stored
    <2>5. QED
      BY <2>3, <2>4 DEF Grows
  <1>3. ASSUME NEW k \in Keys, Removed(k) PROVE Stored' /\ Grows
    <2>1. /\ DOMAIN stored' = Keys /\ stored'[k] = NoPolicy /\ clock' = clock
          /\ \A j \in Keys : j # k => stored'[j] = stored[j]
      BY <1>3 DEF Stored, Removed
    <2>2. ASSUME NEW j \in Keys, NEW p, Was(p, stored[j], clock) PROVE Was(p, stored'[j], clock')
      BY <2>1, <2>2, WasGrows DEF Stored
    <2>3. NoPolicy.rv = 0
      BY DEF NoPolicy
    <2>4. Stored'
      BY <2>1, <2>3 DEF Stored
    <2>5. QED
      BY <2>2, <2>4 DEF Grows
  <1>4. QED
    BY <1>1, <1>2, <1>3

-----------------------------------------------------------------------------
\* Requests

\* A reply leaves nothing to keep.
LEMMA EndedCall ==
  ASSUME NEW status, NEW seen, NEW st, NEW t, NEW f, Seen(seen, st, t)
  PROVE  Call(Ended(status), seen, st, t, f) /\ Ended(status).pc = "idle"
  BY DEF Call, Asked, Checked, Ended, Fields, NoCall

\* A caller no step is about keeps its part of the invariant.
LEMMA OtherCall ==
  ASSUME Stored, Grows, NEW r, NEW seen, Call(r, seen, stored, clock, flags), flags' = flags
  PROVE  Call(r, seen, stored', clock', flags')
  <1>1. Seen(seen, stored', clock')
    BY DEF Call, Seen, Grows
  <1>2. Checked(r, seen, stored', clock', flags')
    <2>1. r.pc = "write" => r.key \in Keys
      BY DEF Call, Asked
    <2>2. QED
      BY <2>1 DEF Call, Checked, Grows
  <1>3. QED
    BY <1>1, <1>2 DEF Call

\* A request no handler has seen.
Fresh(r) == DOMAIN r = Fields /\ ~r.granted /\ r.pc = "idle"

\* A client starts from one of these.
LEMMA RequestOk ==
  ASSUME NEW m, NEW k
  PROVE  LET r == Request(m, k) IN Fresh(r) /\ r.method = m /\ r.key = k
  BY DEF Request, NoCall, Fields, Fresh

\* What the rest of a request leaves as it is.
LEMMA RequestParts ==
  ASSUME NEW r, Fresh(r)
  PROVE  /\ \A s : LET n == WithSpec(r, s) IN Fresh(n) /\ n.method = r.method /\ n.key = r.key
         /\ LET n == Invalid(r) IN Fresh(n) /\ n.method = r.method /\ n.key = r.key
         /\ \A s : LET n == InSpace(r, s) IN Fresh(n) /\ n.method = r.method /\ n.key = r.key
         /\ \A i, j : LET n == Matching(r, i, j) IN
               Fresh(n) /\ n.method = r.method /\ n.key = r.key /\ n.ifMatch = i
  BY DEF Fresh, WithSpec, Invalid, InSpace, Matching, NoCall, Fields

\* A body names one of the methods and keys it was made for.
LEMMA BodiesOk ==
  ASSUME NEW M, NEW K, NEW b \in Bodies(M, K)
  PROVE  Fresh(b) /\ b.method \in M /\ b.key \in K
  BY RequestOk, RequestParts DEF Bodies

\* What a request says when it arrives.
LEMMA CallsOk ==
  ASSUME NEW c \in Callers, NEW r \in Calls(c), Seen(shown[c], stored, clock)
  PROVE  /\ Fresh(r) /\ r.key \in Keys
         /\ r.method \in {"PUT", "DELETE"} =>
               /\ shown[c] # Nothing /\ r.key = shown[c].key
               /\ r.ifMatch \in {0, shown[c].policy.rv}
  <1> DEFINE seen == shown[c]
             versions == {0, seen.policy.rv}
  <1>1. \/ /\ seen # Nothing
           /\ \E b \in Bodies({"PUT"}, {seen.key}), i \in versions, j \in versions : r = Matching(b, i, j)
        \/ seen # Nothing /\ \E i \in versions : r = Matching(Request("DELETE", seen.key), i, 0)
        \/ \E m \in {"GET", "LIST"}, k \in Keys : r = Request(m, k)
        \/ \E b \in Bodies({"POST", "PREVIEW"}, Keys), n \in Namespaces \cup {"none"} : r = InSpace(b, n)
    BY DEF Calls
  <1>2. seen # Nothing => seen.key \in Keys
    BY DEF Seen
  <1>3. CASE /\ seen # Nothing
             /\ \E b \in Bodies({"PUT"}, {seen.key}), i \in versions, j \in versions : r = Matching(b, i, j)
    <2>1. PICK b \in Bodies({"PUT"}, {seen.key}), i \in versions, j \in versions : r = Matching(b, i, j)
      BY <1>3
    <2>2. Fresh(b) /\ b.key = seen.key
      BY BodiesOk
    <2>3. Fresh(r) /\ r.key = b.key /\ r.ifMatch = i
      BY <2>1, <2>2, RequestParts
    <2>4. QED
      BY <1>2, <1>3, <2>2, <2>3
  <1>4. CASE seen # Nothing /\ \E i \in versions : r = Matching(Request("DELETE", seen.key), i, 0)
    <2> DEFINE b == Request("DELETE", seen.key)
    <2>1. PICK i \in versions : r = Matching(b, i, 0)
      BY <1>4
    <2>2. Fresh(b) /\ b.key = seen.key
      BY RequestOk
    <2> HIDE DEF b
    <2>3. Fresh(r) /\ r.key = b.key /\ r.ifMatch = i
      BY <2>1, <2>2, RequestParts
    <2>4. QED
      BY <1>2, <1>4, <2>2, <2>3
  <1>5. CASE \E m \in {"GET", "LIST"}, k \in Keys : r = Request(m, k)
    BY <1>5, RequestOk
  <1>6. CASE \E b \in Bodies({"POST", "PREVIEW"}, Keys), n \in Namespaces \cup {"none"} : r = InSpace(b, n)
    <2>1. PICK b \in Bodies({"POST", "PREVIEW"}, Keys), n \in Namespaces \cup {"none"} : r = InSpace(b, n)
      BY <1>6
    <2>2. Fresh(b) /\ b.key \in Keys /\ b.method \in {"POST", "PREVIEW"}
      BY BodiesOk
    <2>3. Fresh(r) /\ r.key = b.key /\ r.method = b.method
      BY <2>1, <2>2, RequestParts
    <2>4. QED
      BY <2>2, <2>3
  <1>7. QED
    BY <1>1, <1>3, <1>4, <1>5, <1>6

-----------------------------------------------------------------------------
\* Steps of a handler

\* A step of the handler of c touches no other request.
Only(c) ==
    /\ DOMAIN request' = Callers /\ DOMAIN shown' = Callers /\ flags' = flags
    /\ \A d \in Callers : d # c => request'[d] = request[d] /\ shown'[d] = shown[d]

\* What every step of a handler does.
Keeps(c) == /\ Only(c)
            /\ Left \/ (\E k \in Keys : Wrote(k) \/ Removed(k))
            /\ Call(request'[c], shown'[c], stored', clock', flags')

\* What the handler of one request keeps of its fields.
LEMMA Moves ==
  ASSUME NEW r, DOMAIN r = Fields
  PROVE  /\ \A x : LET n == [r EXCEPT !.binding = x] IN
              /\ DOMAIN n = Fields /\ n.granted = r.granted /\ n.pc = r.pc /\ n.method = r.method
              /\ n.key = r.key /\ n.ifMatch = r.ifMatch /\ n.bodyRv = r.bodyRv
         /\ \A x, y : LET n == [r EXCEPT !.pc = x, !.unlisted = y] IN
              /\ DOMAIN n = Fields /\ n.granted = r.granted /\ n.pc = x /\ n.method = r.method
              /\ n.key = r.key /\ n.ifMatch = r.ifMatch /\ n.bodyRv = r.bodyRv
         /\ \A y : LET n == [r EXCEPT !.unlisted = y] IN
              /\ DOMAIN n = Fields /\ n.granted = r.granted /\ n.pc = r.pc /\ n.method = r.method
              /\ n.key = r.key /\ n.ifMatch = r.ifMatch /\ n.bodyRv = r.bodyRv
         /\ \A x : LET n == [r EXCEPT !.pc = x] IN
              /\ DOMAIN n = Fields /\ n.granted = r.granted /\ n.pc = x /\ n.method = r.method
              /\ n.key = r.key /\ n.ifMatch = r.ifMatch /\ n.bodyRv = r.bodyRv
              /\ n.space = r.space /\ n.spec = r.spec /\ n.binding = r.binding
         /\ \A x, y : LET n == [r EXCEPT !.pc = x, !.existing = y] IN
              /\ DOMAIN n = Fields /\ n.granted = r.granted /\ n.pc = x /\ n.method = r.method
              /\ n.key = r.key /\ n.ifMatch = r.ifMatch /\ n.bodyRv = r.bodyRv
              /\ n.space = r.space /\ n.spec = r.spec /\ n.binding = r.binding /\ n.existing = y
  BY DEF Fields, NoCall

\* The checks before the first read end the request or send it on.
LEMMA PreconditionsOk ==
  ASSUME NEW r, NEW seen, NEW st, NEW t, NEW f, Fresh(r), r.key \in Keys, Seen(seen, st, t),
         r.method \in {"PUT", "DELETE"} =>
               seen # Nothing /\ r.key = seen.key /\ r.ifMatch \in {0, seen.policy.rv}
  PROVE  Call(Preconditions(r), seen, st, t, f)
  <1> DEFINE n == [r EXCEPT !.pc = "targets", !.unlisted = Kinds(r)]
  <1>1. \/ \E status : Preconditions(r) = Ended(status)
        \/ /\ Preconditions(r) = n
           /\ r.method \in {"PUT", "DELETE"} => r.ifMatch # 0
           /\ r.method = "PUT" => r.bodyRv = r.ifMatch
    BY DEF Preconditions
  <1>2. /\ DOMAIN n = Fields /\ ~n.granted /\ n.pc = "targets" /\ n.method = r.method
        /\ n.key = r.key /\ n.ifMatch = r.ifMatch /\ n.bodyRv = r.bodyRv
    BY Moves DEF Fresh
  <1> HIDE DEF n
  <1>3. CASE \E status : Preconditions(r) = Ended(status)
    BY <1>3, EndedCall
  <1>4. CASE /\ Preconditions(r) = n
             /\ r.method \in {"PUT", "DELETE"} => r.ifMatch # 0
             /\ r.method = "PUT" => r.bodyRv = r.ifMatch
    BY <1>2, <1>4 DEF Call, Asked, Checked
  <1>5. QED
    BY <1>1, <1>3, <1>4

\* A request arrives: it is refused, or it names what its caller was shown.
LEMMA BeginStep ==
  ASSUME ApiInv, NEW c \in Callers, Begin(c)
  PROVE  Keeps(c)
  <1> DEFINE a == Authenticate(flags, Credential[c], {}, security, FALSE)
  <1>1. PICK r \in Calls(c) :
           request' = [request EXCEPT ![c] =
               IF a.status # 200 THEN Ended(a.status)
               ELSE IF ~policyNamespaceAuthorized(flags, a.security, r.key[1]) THEN Ended(404)
               ELSE IF Mutates(r) /\ flags.anonymous THEN Ended(403)
               ELSE IF Mutates(r) /\ ~flags.writes THEN Ended(404)
               ELSE Preconditions([r EXCEPT !.binding = a.security])]
    BY DEF Begin
  <1>2. Left /\ flags' = flags /\ shown' = shown
    BY DEF Begin, Left
  <1>3. Only(c)
    BY <1>1, <1>2 DEF Only, ApiInv
  <1>4. Seen(shown[c], stored, clock)
    BY DEF ApiInv, Call
  <1> DEFINE n == [r EXCEPT !.binding = a.security]
  <1>5. (\E status : request'[c] = Ended(status)) \/ request'[c] = Preconditions(n)
    <2> DEFINE reply == IF a.status # 200 THEN Ended(a.status)
                        ELSE IF ~policyNamespaceAuthorized(flags, a.security, r.key[1]) THEN Ended(404)
                        ELSE IF Mutates(r) /\ flags.anonymous THEN Ended(403)
                        ELSE IF Mutates(r) /\ ~flags.writes THEN Ended(404)
                        ELSE Preconditions(n)
    <2>1. request' = [request EXCEPT ![c] = reply]
      BY <1>1
    <2>2. (\E status : reply = Ended(status)) \/ reply = Preconditions(n)
      <3> HIDE DEF n, a
      <3>1. QED
        OBVIOUS
    <2> HIDE DEF reply
    <2>3. request'[c] = reply
      BY <2>1 DEF ApiInv
    <2>4. QED
      BY <2>2, <2>3
  <1>6. /\ Fresh(r) /\ r.key \in Keys
        /\ r.method \in {"PUT", "DELETE"} =>
               shown[c] # Nothing /\ r.key = shown[c].key /\ r.ifMatch \in {0, shown[c].policy.rv}
    BY <1>4, CallsOk
  <1>7. Fresh(n) /\ n.method = r.method /\ n.key = r.key /\ n.ifMatch = r.ifMatch
    BY <1>6, Moves DEF Fresh
  <1> HIDE DEF n, a
  <1>8. Call(Preconditions(n), shown[c], stored, clock, flags)
    BY <1>4, <1>6, <1>7, PreconditionsOk
  <1>9. Call(request'[c], shown[c], stored, clock, flags)
    BY <1>4, <1>5, <1>8, EndedCall
  <1>10. QED
    BY <1>2, <1>3, <1>9 DEF Keeps, Left

\* A reply without a write.
LEMMA Replies ==
  ASSUME ApiInv, NEW c \in Callers, NEW status,
         request' = [request EXCEPT ![c] = Ended(status)], Left, flags' = flags, shown' = shown
  PROVE  Keeps(c)
  <1>1. Only(c) /\ request'[c] = Ended(status)
    BY DEF Only, ApiInv
  <1>2. Seen(shown[c], stored, clock)
    BY DEF ApiInv, Call
  <1>3. QED
    BY <1>1, <1>2, EndedCall DEF Keeps, Left

\* Listing the targets changes nothing a later check relies on.
LEMMA ListTargetsStep ==
  ASSUME ApiInv, NEW c \in Callers, NEW kind, ListTargets(c, kind)
  PROVE  Keeps(c)
  <1> DEFINE r == request[c]
             n == [r EXCEPT !.unlisted = @ \ {kind}]
  <1>1. /\ Left /\ flags' = flags /\ shown' = shown /\ r.pc = "targets"
        /\ \/ request' = [request EXCEPT ![c] = Ended(400)]
           \/ request' = [request EXCEPT ![c] = n]
    BY DEF ListTargets, Left
  <1>2. CASE request' = [request EXCEPT ![c] = Ended(400)]
    BY <1>1, <1>2, Replies
  <1>3. CASE request' = [request EXCEPT ![c] = n]
    <2>1. Call(r, shown[c], stored, clock, flags)
      BY DEF ApiInv
    <2>2. /\ DOMAIN n = Fields /\ n.granted = r.granted /\ n.pc = r.pc /\ n.method = r.method
          /\ n.key = r.key /\ n.ifMatch = r.ifMatch /\ n.bodyRv = r.bodyRv
      BY <2>1, Moves DEF Call, Asked
    <2>3. Only(c) /\ request'[c] = n
      BY <1>1, <1>3 DEF Only, ApiInv
    <2> HIDE DEF n
    <2>4. Call(n, shown[c], stored, clock, flags)
      BY <1>1, <2>1, <2>2 DEF Call, Asked, Checked
    <2>5. QED
      BY <1>1, <2>3, <2>4 DEF Keeps, Left
  <1>4. QED
    BY <1>1, <1>2, <1>3

\* What Update and Delete read is no older than what their caller saw.
LEMMA ReadExistingStep ==
  ASSUME ApiInv, NEW c \in Callers, ReadExisting(c)
  PROVE  Keeps(c)
  <1> DEFINE r == request[c]
             e == stored[r.key]
             n == [r EXCEPT !.pc = "write", !.existing = e]
  <1>1. /\ Left /\ flags' = flags /\ shown' = shown /\ r.pc = "targets" /\ r.method \in {"PUT", "DELETE"}
        /\ \/ \E status : request' = [request EXCEPT ![c] = Ended(status)]
           \/ /\ request' = [request EXCEPT ![c] = n] /\ e # NoPolicy
              /\ InScope(r, e.spec) /\ (r.method = "PUT" => InScope(r, r.spec))
    BY DEF ReadExisting, Left
  <1>2. CASE \E status : request' = [request EXCEPT ![c] = Ended(status)]
    BY <1>1, <1>2, Replies
  <1>3. CASE /\ request' = [request EXCEPT ![c] = n] /\ e # NoPolicy
             /\ InScope(r, e.spec) /\ (r.method = "PUT" => InScope(r, r.spec))
    <2>1. Call(r, shown[c], stored, clock, flags) /\ Stored
      BY DEF ApiInv
    <2>2. /\ DOMAIN n = Fields /\ n.granted = r.granted /\ n.pc = "write" /\ n.method = r.method
          /\ n.key = r.key /\ n.ifMatch = r.ifMatch /\ n.bodyRv = r.bodyRv
          /\ n.space = r.space /\ n.spec = r.spec /\ n.binding = r.binding /\ n.existing = e
      BY <2>1, Moves DEF Call, Asked
    <2>3. Only(c) /\ request'[c] = n
      BY <1>1, <1>3 DEF Only, ApiInv
    <2> HIDE DEF n
    <2>4. Asked(n, shown[c]) /\ r.key \in Keys /\ shown[c] # Nothing /\ r.key = shown[c].key
      BY <1>1, <2>1, <2>2 DEF Call, Asked
    <2>5. Was(e, e, clock)
      BY <1>3, <2>1, <2>4, IsWas
    <2>6. shown[c].policy.rv <= e.rv
      BY <1>3, <2>1, <2>4 DEF Call, Seen, Was
    <2>7. Space(n) = Space(r)
      BY <2>2 DEF Space
    <2>8. Checked(n, shown[c], stored, clock, flags)
      BY <1>1, <1>3, <2>2, <2>5, <2>6, <2>7 DEF Checked, InScope
    <2>9. QED
      BY <1>1, <2>1, <2>3, <2>4, <2>8 DEF Keeps, Left, Call
  <1>4. QED
    BY <1>1, <1>2, <1>3

\* Create goes on to the write with its scope checked.
LEMMA CheckNewStep ==
  ASSUME ApiInv, NEW c \in Callers, CheckNew(c)
  PROVE  Keeps(c)
  <1> DEFINE r == request[c]
             n == [r EXCEPT !.pc = "write"]
  <1>1. /\ Left /\ flags' = flags /\ shown' = shown /\ r.pc = "targets" /\ r.method \in {"POST", "PREVIEW"}
        /\ \/ \E status : request' = [request EXCEPT ![c] = Ended(status)]
           \/ request' = [request EXCEPT ![c] = n] /\ InScope(r, r.spec) /\ r.method = "POST"
    BY DEF CheckNew, Left
  <1>2. CASE \E status : request' = [request EXCEPT ![c] = Ended(status)]
    BY <1>1, <1>2, Replies
  <1>3. CASE request' = [request EXCEPT ![c] = n] /\ InScope(r, r.spec) /\ r.method = "POST"
    <2>1. Call(r, shown[c], stored, clock, flags)
      BY DEF ApiInv
    <2>2. /\ DOMAIN n = Fields /\ n.granted = r.granted /\ n.pc = "write" /\ n.method = r.method
          /\ n.key = r.key /\ n.ifMatch = r.ifMatch /\ n.bodyRv = r.bodyRv
          /\ n.space = r.space /\ n.spec = r.spec /\ n.binding = r.binding
      BY <2>1, Moves DEF Call, Asked
    <2>3. Only(c) /\ request'[c] = n
      BY <1>1, <1>3 DEF Only, ApiInv
    <2> HIDE DEF n
    <2>4. Asked(n, shown[c])
      BY <1>1, <1>3, <2>1, <2>2 DEF Call, Asked
    <2>5. Space(n) = Space(r)
      BY <2>2 DEF Space
    <2>6. Checked(n, shown[c], stored, clock, flags)
      BY <1>3, <2>2, <2>5 DEF Checked, InScope
    <2>7. QED
      BY <1>1, <2>1, <2>3, <2>4, <2>6 DEF Keeps, Left, Call
  <1>4. QED
    BY <1>1, <1>2, <1>3

\* What a reader is shown is stored at that moment.
LEMMA GetStep ==
  ASSUME ApiInv, NEW c \in Callers, Get(c)
  PROVE  Keeps(c)
  <1>1. /\ Left /\ flags' = flags /\ \E status : request' = [request EXCEPT ![c] = Ended(status)]
        /\ \/ shown' = shown
           \/ \E k \in Keys : /\ stored[k] # NoPolicy
                              /\ shown' = [shown EXCEPT ![c] = [key |-> k, policy |-> stored[k]]]
    BY DEF Get, Left
  <1>2. CASE shown' = shown
    BY <1>1, <1>2, Replies
  <1>3. ASSUME NEW k \in Keys, stored[k] # NoPolicy,
               shown' = [shown EXCEPT ![c] = [key |-> k, policy |-> stored[k]]]
        PROVE  Keeps(c)
    <2>1. PICK status : request' = [request EXCEPT ![c] = Ended(status)]
      BY <1>1
    <2>2. Only(c) /\ request'[c] = Ended(status) /\ shown'[c] = [key |-> k, policy |-> stored[k]]
      BY <1>1, <1>3, <2>1 DEF Only, ApiInv
    <2>3. Was(stored[k], stored[k], clock)
      BY <1>3, IsWas DEF ApiInv
    <2>4. Seen(shown'[c], stored, clock)
      BY <2>2, <2>3 DEF Seen
    <2>5. QED
      BY <1>1, <2>2, <2>4, EndedCall DEF Keeps, Left
  <1>4. QED
    BY <1>1, <1>2, <1>3

\* The writes of Create and Update show the caller what they stored.
LEMMA StoreStep ==
  ASSUME ApiInv, NEW c \in Callers, NEW k \in Keys, NEW s, NEW status, Store(k, s), flags' = flags,
         request' = [request EXCEPT ![c] = Ended(status)],
         shown' = [shown EXCEPT ![c] = [key |-> k, policy |-> stored'[k]]]
  PROVE  Keeps(c)
  <1> DEFINE n == [rv |-> clock + 1, spec |-> s]
  <1>1. Only(c) /\ request'[c] = Ended(status) /\ shown'[c] = [key |-> k, policy |-> stored'[k]]
    BY DEF Only, ApiInv
  <1>2. Wrote(k) /\ stored'[k] = n /\ clock' = clock + 1 /\ clock \in Nat
    BY DEF Wrote, Store, ApiInv, Stored
  <1>3. Was(n, n, clock + 1)
    BY <1>2 DEF Was
  <1>4. Seen(shown'[c], stored', clock')
    BY <1>1, <1>2, <1>3 DEF Seen
  <1>5. QED
    BY <1>1, <1>2, <1>4, EndedCall DEF Keeps

\* The writes, and the replies that refuse them.
LEMMA WriteStep ==
  ASSUME ApiInv, NEW c \in Callers, Post(c) \/ Put(c) \/ Delete(c) \/ ApiError(c)
  PROVE  Keeps(c)
  <1> DEFINE r == request[c]
  <1>0. r.pc \in {"targets", "write"} => r.key \in Keys
    BY DEF ApiInv, Call, Asked
  <1>1. ASSUME NEW status, Refuse(c, status) PROVE Keeps(c)
    BY <1>1, Replies DEF Refuse, Left
  <1>2. CASE Post(c)
    BY <1>0, <1>1, <1>2, StoreStep DEF Post
  <1>3. CASE Put(c)
    BY <1>0, <1>1, <1>3, StoreStep DEF Put
  <1>4. CASE Delete(c)
    <2>1. CASE /\ stored' = [stored EXCEPT ![r.key] = NoPolicy]
               /\ request' = [request EXCEPT ![c] = Ended(204)]
               /\ shown' = [shown EXCEPT ![c] = Nothing]
               /\ flags' = flags /\ clock' = clock
      <3>1. Only(c) /\ request'[c] = Ended(204) /\ shown'[c] = Nothing
        BY <2>1 DEF Only, ApiInv
      <3>2. Removed(r.key) /\ r.key \in Keys
        BY <1>0, <1>4, <2>1 DEF Removed, Delete
      <3>3. Seen(shown'[c], stored', clock')
        BY <3>1 DEF Seen
      <3>4. QED
        BY <3>1, <3>2, <3>3, EndedCall DEF Keeps
    <2>2. QED
      BY <1>1, <1>4, <2>1 DEF Delete
  <1>5. CASE ApiError(c)
    BY <1>1, <1>5 DEF ApiError
  <1>6. QED
    BY <1>2, <1>3, <1>4, <1>5

\* The invariant is kept.
LEMMA ApiStep ==
  ASSUME ApiInv, [ApiNext]_apiVars
  PROVE  ApiInv'
  <1>1. ASSUME NEW c \in Callers, Keeps(c) PROVE ApiInv'
    <2>1. Stored' /\ Grows
      BY <1>1, StoreSteps DEF Keeps, ApiInv
    <2>2. ASSUME NEW d \in Callers, d # c
          PROVE  Call(request'[d], shown'[d], stored', clock', flags')
      BY <1>1, <2>1, <2>2, OtherCall DEF Keeps, Only, ApiInv
    <2>3. QED
      BY <1>1, <2>1, <2>2 DEF Keeps, Only, ApiInv
  <1>2. ASSUME Left \/ (\E k \in Keys : Wrote(k) \/ Removed(k)), flags' = flags, request' = request,
               shown' = shown
        PROVE  ApiInv'
    <2>1. Stored' /\ Grows
      BY <1>2, StoreSteps DEF ApiInv
    <2>2. \A d \in Callers : Call(request[d], shown[d], stored', clock', flags')
      BY <1>2, <2>1, OtherCall DEF ApiInv
    <2>3. QED
      BY <1>2, <2>1, <2>2 DEF ApiInv
  <1>3. ASSUME NEW c \in Callers, Handle(c) PROVE ApiInv'
    BY <1>1, <1>3, BeginStep, ListTargetsStep, ReadExistingStep, CheckNewStep, GetStep, WriteStep
       DEF Handle
  <1>4. ASSUME NEW k \in Keys, KubectlDelete(k) \/ (\E s \in Specs : KubectlApply(k, s)) PROVE ApiInv'
    BY <1>2, <1>4 DEF KubectlDelete, KubectlApply, Store, Wrote, Removed
  <1>5. ASSUME \/ \E b \in BindingSets : EditBindings(b)
               \/ \E n \in Namespaces, t \in Resources : Onboard(n, t)
               \/ UNCHANGED apiVars
        PROVE  ApiInv'
    BY <1>2, <1>5 DEF EditBindings, Onboard, apiVars, Left
  <1>6. QED
    BY <1>3, <1>4, <1>5 DEF ApiNext

\* The invariant holds at the start.
LEMMA ApiStart == ApiInit => ApiInv
  <1> SUFFICES ASSUME ApiInit PROVE ApiInv
    OBVIOUS
  <1>1. NoPolicy.rv = 0 /\ NoCall.pc = "idle" /\ DOMAIN NoCall = Fields
    BY DEF NoPolicy, NoCall, Fields
  <1>2. Stored /\ DOMAIN request = Callers /\ DOMAIN shown = Callers
    BY <1>1 DEF ApiInit, Stored
  <1>3. \A c \in Callers : Call(request[c], shown[c], stored, clock, flags)
    BY <1>1 DEF ApiInit, Call, Seen, Asked, Checked
  <1>4. QED
    BY <1>2, <1>3 DEF ApiInv

-----------------------------------------------------------------------------
\* The properties

\* What a write that is granted has met.
LEMMA AcceptedStep ==
  ASSUME ApiInv, ApiNext, NEW c \in Callers, Accepted(c)
  PROVE  LET r == request[c] IN
         /\ r.method \in {"POST", "PUT", "DELETE"}
         /\ r.method = "PUT" => stored[r.key] # NoPolicy /\ stored[r.key].rv = r.bodyRv
         /\ r.method = "DELETE" => stored[r.key] # NoPolicy /\ stored[r.key].rv = r.ifMatch
  <1> DEFINE r == request[c]
  <1>1. r.pc = "write" /\ ~r.granted /\ request'[c].granted
    BY DEF Accepted, ApiInv, Call, Asked
  <1>2. \A d \in Callers : Keeps(d) /\ d # c => request'[c] = request[c]
    BY DEF Keeps, Only
  <1>3. Handle(c)
    <2>1. ASSUME NEW d \in Callers, Handle(d) PROVE d = c
      BY <1>1, <1>2, <2>1, BeginStep, ListTargetsStep, ReadExistingStep, CheckNewStep, GetStep, WriteStep
         DEF Handle
    <2>2. request' # request
      BY <1>1
    <2>3. ~\E k \in Keys : KubectlDelete(k) \/ (\E s \in Specs : KubectlApply(k, s))
      BY <2>2 DEF KubectlDelete, KubectlApply
    <2>4. /\ ~\E b \in BindingSets : EditBindings(b)
          /\ ~\E n \in Namespaces, t \in Resources : Onboard(n, t)
      BY <2>2 DEF EditBindings, Onboard
    <2>5. QED
      BY <2>1, <2>3, <2>4 DEF ApiNext
  <1>4. ~Refuse(c, 404) /\ ~Refuse(c, 409) /\ ~Refuse(c, 500)
    <2>1. ~Ended(404).granted /\ ~Ended(409).granted /\ ~Ended(500).granted
      <3>1. \A x : [NoCall EXCEPT !.granted = x].granted = x
        BY DEF NoCall
      <3>2. \A s : Ended(s).granted <=> s < 300
        BY <3>1, Zenon DEF Ended
      <3>3. ~(404 < 300) /\ ~(409 < 300) /\ ~(500 < 300)
        OBVIOUS
      <3>4. QED
        BY <3>2, <3>3
    <2>2. \A s : Refuse(c, s) => request'[c] = Ended(s)
      BY DEF Refuse, ApiInv
    <2>3. QED
      BY <1>1, <2>1, <2>2
  <1>5. Post(c) \/ Put(c) \/ Delete(c)
    BY <1>1, <1>3, <1>4
       DEF Handle, Begin, ListTargets, ReadExisting, CheckNew, Get, ApiError
  <1>6. QED
    BY <1>4, <1>5 DEF Post, Put, Delete

\* The policy a granted update or deletion replaces is the one its handler read
\* and the one its caller was shown.
LEMMA Replaced ==
  ASSUME ApiInv, ApiNext, NEW c \in Callers, Accepted(c), request[c].method \in {"PUT", "DELETE"}
  PROVE  /\ stored[request[c].key] = shown[c].policy
         /\ stored[request[c].key] = request[c].existing
  <1> DEFINE r == request[c]
             s == stored[r.key]
  <1>1. s # NoPolicy /\ s.rv = shown[c].policy.rv /\ r.key = shown[c].key /\ shown[c] # Nothing
    BY AcceptedStep DEF Accepted, ApiInv, Call, Asked
  <1>2. Was(shown[c].policy, s, clock)
    BY <1>1 DEF ApiInv, Call, Seen
  <1>3. Was(r.existing, s, clock) /\ shown[c].policy.rv <= r.existing.rv
    BY DEF ApiInv, Call, Checked, Accepted
  <1>4. s.rv = r.existing.rv
    BY <1>1, <1>2, <1>3 DEF Was
  <1>5. QED
    BY <1>1, <1>2, <1>3, <1>4 DEF Was

\* The invariant holds throughout.
LEMMA ApiInvariance == ApiSpec => []ApiInv
  BY ApiStart, ApiStep, PTL DEF ApiSpec

\* For every number of callers, names, writes and edits: an update or a deletion
\* that the policy endpoints grant replaces the policy its caller was shown.
THEOREM NoEditLost == ApiSpec => NoLostEdit
  <1>1. ApiInv /\ [ApiNext]_apiVars =>
           [\A c \in Callers : Accepted(c) /\ request[c].method \in {"PUT", "DELETE"} =>
               stored[request[c].key] = shown[c].policy]_apiVars
    BY Replaced
  <1>2. QED
    BY <1>1, ApiInvariance, PTL DEF ApiSpec, NoLostEdit

\* A scope that is authorized is covered by the binding.
LEMMA ScopeCovers ==
  ASSUME NEW f, NEW b, NEW n, NEW s, f.oidc, policyScopeAuthorized(f, b, n, s)
  PROVE  Covers(b, n, s)
  BY DEF policyScopeAuthorized, policyNamespaceAuthorized, isSecurityResourceAllowed,
         isResourceAllowed, Covers

\* Under OIDC, what a granted write puts and what it removes are both inside what
\* the SecurityGroupBinding of its caller covers.
THEOREM WritesInScope == ApiSpec => ScopedWrites
  <1>1. ASSUME ApiInv, ApiNext, NEW c \in Callers, Accepted(c), flags.oidc
        PROVE  LET r == request[c] IN
               /\ r.method # "DELETE" => Covers(r.binding, r.key[1], r.spec)
               /\ r.method # "POST" => Covers(r.binding, r.key[1], stored[r.key].spec)
    <2> DEFINE r == request[c]
    <2>1. r.method \in {"POST", "PUT", "DELETE"} /\ r.pc = "write"
      BY <1>1, AcceptedStep DEF Accepted
    <2>2. Space(r) = r.key[1]
      BY <2>1 DEF Space
    <2>3. /\ r.method # "DELETE" => policyScopeAuthorized(flags, r.binding, r.key[1], r.spec)
          /\ r.method # "POST" => policyScopeAuthorized(flags, r.binding, r.key[1], r.existing.spec)
      BY <1>1, <2>1, <2>2 DEF ApiInv, Call, Checked
    <2>4. r.method # "POST" => r.existing = stored[r.key]
      BY <1>1, <2>1, Replaced
    <2>5. QED
      BY <1>1, <2>3, <2>4, ScopeCovers
  <1>2. ApiInv /\ [ApiNext]_apiVars =>
           [\A c \in Callers : Accepted(c) /\ flags.oidc =>
               LET r == request[c] IN
               /\ r.method # "DELETE" => Covers(r.binding, r.key[1], r.spec)
               /\ r.method # "POST" => Covers(r.binding, r.key[1], stored[r.key].spec)]_apiVars
    BY <1>1
  <1>3. QED
    BY <1>2, ApiInvariance, PTL DEF ApiSpec, ScopedWrites

\* The catalog and the capabilities agree for every binding, and a policy for any
\* resource the catalog offers passes the scope check of Create.
THEOREM CatalogIsHonest == ApiSpec => []CatalogHonest
  <1>1. CatalogHonest
    <2> SUFFICES ASSUME NEW b, NEW i \in Catalog(flags, b)
                 PROVE  LET p == Capabilities(flags, b, i.namespace) IN
                        /\ i.canWrite = p.canWrite
                        /\ flags.oidc => i.wide = p.canManageNamespaceWidePolicies
                        /\ i.canWrite => \A t \in i.resources :
                               /\ t \in onboarded[i.namespace]
                               /\ policyScopeAuthorized(flags, b, i.namespace,
                                                        [targets |-> {t}, selector |-> FALSE])
      BY DEF CatalogHonest
    <2>1. PICK n \in CatalogNamespaces(b) \cap Namespaces : i = CatalogNamespace(flags, b, n)
      BY DEF Catalog
    <2>2. b # Nobody /\ ("*" \in b.namespaces \/ n \in b.namespaces)
      BY DEF CatalogNamespaces
    <2>3. policyNamespaceAuthorized(flags, b, n)
      BY <2>2 DEF policyNamespaceAuthorized
    <2>4. /\ i.namespace = n /\ i.canWrite = (~flags.anonymous /\ flags.writes)
          /\ i.wide = (b = Nobody \/ b.wide)
          /\ i.resources = {t \in onboarded[n] : isSecurityResourceAllowed(b, t.kind, t.name)}
      BY <2>1 DEF CatalogNamespace
    <2>5. i.canWrite = Capabilities(flags, b, n).canWrite
      BY <2>3, <2>4 DEF Capabilities
    <2>6. flags.oidc => i.wide = Capabilities(flags, b, n).canManageNamespaceWidePolicies
      BY <2>2, <2>4 DEF Capabilities
    <2>7. ASSUME NEW t \in i.resources
          PROVE  /\ t \in onboarded[n]
                 /\ policyScopeAuthorized(flags, b, n, [targets |-> {t}, selector |-> FALSE])
      BY <2>3, <2>4, <2>7 DEF policyScopeAuthorized
    <2>8. QED
      BY <2>4, <2>5, <2>6, <2>7
  <1>2. QED
    BY <1>1, PTL
=============================================================================
