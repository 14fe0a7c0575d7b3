----------------------------- MODULE PolicyApi ------------------------------
(***************************************************************************)
(* The endpoints that manage ScanPolicies, while operators use kubectl.    *)
(* services/server/policy_api.go, policy_catalog.go                        *)
(*                                                                         *)
(* A handler authenticates, lists the targets, reads the stored policy and *)
(* writes: four reads of the API at four moments.  A spec is what the      *)
(* scope checks see of a policy: its targets, and whether it selects by    *)
(* label.  A stored policy carries the resourceVersion of its last write.  *)
(***************************************************************************)
EXTENDS ServerAccess

CONSTANTS
    Callers,        \* users of the endpoints
    Credential,     \* what each of them presents
    FlagSets,       \* the flags a server may be started with
    Namespaces, Names,
    Specs,          \* the policies written
    Resources,      \* [kind, name]: what a namespace may have onboarded
    BindingSets,    \* the sets of SecurityGroupBindings operators may leave behind
    MaxVersion,     \* bound of the resourceVersion counter
    MaxOther        \* bound of the changes to bindings and resources

ASSUME PolicyConstants ==
    /\ MaxVersion \in Nat /\ MaxOther \in Nat
    /\ \A s \in Specs : s.targets \subseteq Resources

VARIABLES flags, stored, onboarded, security, clock, others, request, shown

apiVars == <<flags, stored, onboarded, security, clock, others, request, shown>>

Keys == Namespaces \X Names
NoPolicy == [rv |-> 0, spec |-> [targets |-> {}, selector |-> FALSE]]
Nothing == [key |-> <<"none", "none">>, policy |-> NoPolicy]
Empty == NoPolicy.spec

NoCall == [pc |-> "idle", method |-> "none", key |-> <<"none", "none">>, spec |-> Empty, space |-> "none",
           valid |-> TRUE, ifMatch |-> 0, bodyRv |-> 0, binding |-> Nobody, unlisted |-> {},
           existing |-> NoPolicy, granted |-> FALSE]

ApiInit ==
    /\ flags \in FlagSets
    /\ stored = [k \in Keys |-> NoPolicy]
    /\ onboarded = [n \in Namespaces |-> Resources]
    /\ security \in BindingSets
    /\ clock = 0 /\ others = 0
    /\ request = [c \in Callers |-> NoCall]
    /\ shown = [c \in Callers |-> Nothing]

-----------------------------------------------------------------------------
\* A request: method, URL, header and body.  A client knows no other version than
\* the one it was shown, and may forget it in the header or in the body.

Request(method, key) == [NoCall EXCEPT !.method = method, !.key = key]
WithSpec(r, spec) == [r EXCEPT !.spec = spec]
Invalid(r) == [r EXCEPT !.valid = FALSE]
InSpace(r, namespace) == [r EXCEPT !.space = namespace]
Matching(r, header, body) == [r EXCEPT !.ifMatch = header, !.bodyRv = body]

Bodies(methods, keys) ==
    {WithSpec(Request(m, k), s) : m \in methods, k \in keys, s \in Specs}
    \cup {Invalid(Request(m, k)) : m \in methods, k \in keys}

Calls(c) ==
    LET seen == shown[c]
        versions == {0, seen.policy.rv}
    IN
    (IF seen = Nothing THEN {} ELSE
        {Matching(b, i, j) : b \in Bodies({"PUT"}, {seen.key}), i \in versions, j \in versions}
        \cup {Matching(Request("DELETE", seen.key), i, 0) : i \in versions})
    \cup {Request(m, k) : m \in {"GET", "LIST"}, k \in Keys}
    \cup {InSpace(b, n) : b \in Bodies({"POST", "PREVIEW"}, Keys), n \in Namespaces \cup {"none"}}

Mutates(r) == r.method \in {"POST", "PUT", "DELETE"}
\* The reply.  What is kept of it is whether the request was granted.
Ended(status) == [NoCall EXCEPT !.granted = status < 300]

\* The kinds validateScanPolicyTargets has to list, one read each.
Kinds(r) == IF r.method \in {"POST", "PUT", "PREVIEW"} THEN {t.kind : t \in r.spec.targets} ELSE {}

\* requireIfMatch, then decodeAndValidateScanPolicy, then what the body must
\* repeat: Update the version of the header, Create the namespace of the URL.
Preconditions(r) ==
    IF r.method \in {"PUT", "DELETE"} /\ r.ifMatch = 0 THEN Ended(428)
    ELSE IF ~r.valid THEN Ended(400)
    ELSE IF r.method = "PUT" /\ r.bodyRv # r.ifMatch THEN Ended(409)
    ELSE IF r.method = "POST" /\ r.space \notin {"none", r.key[1]} THEN Ended(400)
    ELSE [r EXCEPT !.pc = "targets", !.unlisted = Kinds(r)]

\* handleScanPolicies and the two wrappers: who asks, and may they at all.
Begin(c) ==
    LET a == Authenticate(flags, Credential[c], {}, security, FALSE) IN
    /\ request[c].pc = "idle"
    /\ \E r \in Calls(c) :
           request' = [request EXCEPT ![c] =
               IF a.status # 200 THEN Ended(a.status)
               ELSE IF ~policyNamespaceAuthorized(flags, a.security, r.key[1]) THEN Ended(404)
               ELSE IF Mutates(r) /\ flags.anonymous THEN Ended(403)
               ELSE IF Mutates(r) /\ ~flags.writes THEN Ended(404)
               ELSE Preconditions([r EXCEPT !.binding = a.security])]
    /\ UNCHANGED <<flags, stored, onboarded, security, clock, others, shown>>

\* The namespace a preview is about is the one of its body.
Space(r) == IF r.method = "PREVIEW" /\ r.space # "none" THEN r.space ELSE r.key[1]

\* validateScanPolicyTargets: one list for each kind of target.
ListTargets(c, kind) ==
    LET r == request[c] IN
    /\ r.pc = "targets" /\ kind \in r.unlisted
    /\ request' = [request EXCEPT ![c] =
           IF {t \in r.spec.targets : t.kind = kind} \subseteq onboarded[Space(r)]
           THEN [r EXCEPT !.unlisted = @ \ {kind}]
           ELSE Ended(400)]
    /\ UNCHANGED <<flags, stored, onboarded, security, clock, others, shown>>

InScope(r, spec) == policyScopeAuthorized(flags, r.binding, Space(r), spec)

\* Mutant: the scope of the policy replaced is not looked at.
Mutant_ReadExistingNewOnly(c) ==
    LET r == request[c]
        e == stored[r.key]
    IN
    /\ r.pc = "targets" /\ r.unlisted = {} /\ r.method \in {"PUT", "DELETE"}
    /\ request' = [request EXCEPT ![c] =
           IF e = NoPolicy THEN Ended(404)
           ELSE IF r.method = "PUT" /\ ~InScope(r, r.spec) THEN Ended(403)
           ELSE [r EXCEPT !.pc = "write", !.existing = e]]
    /\ UNCHANGED <<flags, stored, onboarded, security, clock, others, shown>>

\* Update and Delete: the stored policy, and the scope of it and of its successor.
ReadExisting(c) ==
    LET r == request[c]
        e == stored[r.key]
    IN
    /\ r.pc = "targets" /\ r.unlisted = {} /\ r.method \in {"PUT", "DELETE"}
    /\ request' = [request EXCEPT ![c] =
           IF e = NoPolicy THEN Ended(404)
           ELSE IF ~InScope(r, e.spec) \/ (r.method = "PUT" /\ ~InScope(r, r.spec)) THEN Ended(403)
           ELSE [r EXCEPT !.pc = "write", !.existing = e]]
    /\ UNCHANGED <<flags, stored, onboarded, security, clock, others, shown>>

\* Create and Preview: the scope of the new policy; a preview ends here.
CheckNew(c) ==
    LET r == request[c] IN
    /\ r.pc = "targets" /\ r.unlisted = {} /\ r.method \in {"POST", "PREVIEW"}
    /\ request' = [request EXCEPT ![c] =
           IF ~InScope(r, r.spec) THEN Ended(403)
           ELSE IF r.method = "PREVIEW" THEN Ended(200)
           ELSE [r EXCEPT !.pc = "write"]]
    /\ UNCHANGED <<flags, stored, onboarded, security, clock, others, shown>>

\* handleScanPolicyGet: a policy out of scope is not found, or not in the list.
Get(c) ==
    LET r == request[c]
        visible == {k \in Keys : /\ k[1] = r.key[1] /\ r.method = "GET" => k = r.key
                                 /\ stored[k] # NoPolicy /\ InScope(r, stored[k].spec)}
    IN
    /\ r.pc = "targets" /\ r.method \in {"GET", "LIST"}
    /\ \/ /\ visible = {}
          /\ request' = [request EXCEPT ![c] = Ended(IF r.method = "GET" THEN 404 ELSE 200)]
          /\ UNCHANGED shown
       \/ \E k \in visible :
              /\ request' = [request EXCEPT ![c] = Ended(200)]
              /\ shown' = [shown EXCEPT ![c] = [key |-> k, policy |-> stored[k]]]
    /\ UNCHANGED <<flags, stored, onboarded, security, clock, others>>

-----------------------------------------------------------------------------
\* The write.  Kubernetes refuses one that names another resourceVersion than
\* the stored one, and gives the object the next one.

Store(k, spec) ==
    /\ clock < MaxVersion
    /\ clock' = clock + 1
    /\ stored' = [stored EXCEPT ![k] = [rv |-> clock + 1, spec |-> spec]]

Refuse(c, status) ==
    /\ request' = [request EXCEPT ![c] = Ended(status)]
    /\ UNCHANGED <<flags, stored, onboarded, security, clock, others, shown>>

\* writeKubernetesError: a read or the write fails for a reason of its own.
ApiError(c) == request[c].pc \in {"targets", "write"} /\ Refuse(c, 500)

Post(c) ==
    LET r == request[c] IN
    /\ r.pc = "write" /\ r.method = "POST"
    /\ \/ stored[r.key] # NoPolicy /\ Refuse(c, 409)
       \/ /\ stored[r.key] = NoPolicy
          /\ Store(r.key, r.spec)
          /\ request' = [request EXCEPT ![c] = Ended(201)]
          /\ shown' = [shown EXCEPT ![c] = [key |-> r.key, policy |-> stored'[r.key]]]
          /\ UNCHANGED <<flags, onboarded, security, others>>

Put(c) ==
    LET r == request[c] IN
    /\ r.pc = "write" /\ r.method = "PUT"
    /\ \/ stored[r.key] = NoPolicy /\ Refuse(c, 404)
       \/ stored[r.key] # NoPolicy /\ stored[r.key].rv # r.bodyRv /\ Refuse(c, 409)
       \/ /\ stored[r.key] # NoPolicy /\ stored[r.key].rv = r.bodyRv
          /\ Store(r.key, r.spec)
          /\ request' = [request EXCEPT ![c] = Ended(200)]
          /\ shown' = [shown EXCEPT ![c] = [key |-> r.key, policy |-> stored'[r.key]]]
          /\ UNCHANGED <<flags, onboarded, security, others>>

\* Mutant: the precondition is the version just read, not the caller's.
Mutant_DeleteOwnVersion(c) ==
    LET r == request[c] IN
    /\ r.pc = "write" /\ r.method = "DELETE"
    /\ \/ stored[r.key] = NoPolicy /\ Refuse(c, 404)
       \/ stored[r.key] # NoPolicy /\ stored[r.key].rv # r.existing.rv /\ Refuse(c, 409)
       \/ /\ stored[r.key] # NoPolicy /\ stored[r.key].rv = r.existing.rv
          /\ stored' = [stored EXCEPT ![r.key] = NoPolicy]
          /\ request' = [request EXCEPT ![c] = Ended(204)]
          /\ shown' = [shown EXCEPT ![c] = Nothing]
          /\ UNCHANGED <<flags, onboarded, security, clock, others>>

Delete(c) ==
    LET r == request[c] IN
    /\ r.pc = "write" /\ r.method = "DELETE"
    /\ \/ stored[r.key] = NoPolicy /\ Refuse(c, 404)
       \/ stored[r.key] # NoPolicy /\ stored[r.key].rv # r.ifMatch /\ Refuse(c, 409)
       \/ /\ stored[r.key] # NoPolicy /\ stored[r.key].rv = r.ifMatch
          /\ stored' = [stored EXCEPT ![r.key] = NoPolicy]
          /\ request' = [request EXCEPT ![c] = Ended(204)]
          /\ shown' = [shown EXCEPT ![c] = Nothing]
          /\ UNCHANGED <<flags, onboarded, security, clock, others>>

-----------------------------------------------------------------------------
\* Meanwhile

KubectlApply(k, s) ==
    /\ Store(k, s)
    /\ UNCHANGED <<flags, onboarded, security, others, request, shown>>

KubectlDelete(k) ==
    /\ stored[k] # NoPolicy
    /\ stored' = [stored EXCEPT ![k] = NoPolicy]
    /\ UNCHANGED <<flags, onboarded, security, clock, others, request, shown>>

EditBindings(b) ==
    /\ others < MaxOther /\ b # security
    /\ security' = b /\ others' = others + 1
    /\ UNCHANGED <<flags, stored, onboarded, clock, request, shown>>

Onboard(n, t) ==
    /\ others < MaxOther
    /\ onboarded' = [onboarded EXCEPT ![n] = IF t \in @ THEN @ \ {t} ELSE @ \cup {t}]
    /\ others' = others + 1
    /\ UNCHANGED <<flags, stored, security, clock, request, shown>>

Handle(c) ==
    \/ Begin(c) \/ (\E kind \in {"module", "provider"} : ListTargets(c, kind))
    \/ ReadExisting(c) \/ CheckNew(c) \/ Get(c) \/ Post(c) \/ Put(c) \/ Delete(c)
    \/ ApiError(c)

ApiNext ==
    \/ \E c \in Callers : Handle(c)
    \/ \E k \in Keys : KubectlDelete(k) \/ (\E s \in Specs : KubectlApply(k, s))
    \/ \E b \in BindingSets : EditBindings(b)
    \/ \E n \in Namespaces, t \in Resources : Onboard(n, t)

ApiSpec == ApiInit /\ [][ApiNext]_apiVars

-----------------------------------------------------------------------------
\* What the server tells a caller it may do.

\* handleScanPolicyCapabilities
Capabilities(f, binding, namespace) ==
    [canWrite |-> ~f.anonymous /\ f.writes /\ policyNamespaceAuthorized(f, binding, namespace),
     canManageNamespaceWidePolicies |-> ~f.oidc \/ (binding # Nobody /\ binding.wide)]

\* catalogNamespaces
CatalogNamespaces(binding) ==
    IF binding = Nobody THEN {}
    ELSE IF "*" \in binding.namespaces THEN Namespaces ELSE binding.namespaces

\* Mutant: the catalog lists every resource of the namespace.
Mutant_CatalogNamespaceAll(f, binding, namespace) ==
    [namespace |-> namespace, canWrite |-> ~f.anonymous /\ f.writes,
     wide |-> binding = Nobody \/ binding.wide, resources |-> onboarded[namespace]]

CatalogNamespace(f, binding, namespace) ==
    [namespace |-> namespace, canWrite |-> ~f.anonymous /\ f.writes,
     wide |-> binding = Nobody \/ binding.wide,
     resources |-> {t \in onboarded[namespace] : isSecurityResourceAllowed(binding, t.kind, t.name)}]

\* handleScanPolicyCatalog
Catalog(f, binding) ==
    {i \in {CatalogNamespace(f, binding, n) : n \in CatalogNamespaces(binding) \cap Namespaces} :
        i.resources # {} \/ i.wide}

-----------------------------------------------------------------------------
\* Properties

Accepted(c) == request[c].pc = "write" /\ request'[c].granted

\* An update or a deletion that succeeds replaces exactly the policy its caller
\* was last shown: no edit made in between, by kubectl or by another user, is
\* lost.  The header, the body, the read of the handler and the write of the API
\* each name or meet a version of their own (handleScanPolicyUpdate, -Delete).
NoLostEdit ==
    [][\A c \in Callers : Accepted(c) /\ request[c].method \in {"PUT", "DELETE"} =>
           stored[request[c].key] = shown[c].policy]_apiVars

\* A binding covers a spec when it covers each of its targets, and a spec for the
\* whole namespace when it says so.
Covers(b, n, s) ==
    /\ b # Nobody /\ b.namespaces \cap {n, "*"} # {}
    /\ IF s.targets = {} \/ s.selector THEN b.wide
       ELSE \A t \in s.targets : IF t.kind = "module" THEN t.name \in b.modules
                                 ELSE b.providers \cap {t.name, "*"} # {}

\* With OIDC, neither the policy a write puts nor the one it removes lies outside
\* what the binding of its caller covers, although the scope is checked on what
\* was read before and the policy may have been edited since.
ScopedWrites ==
    [][\A c \in Callers : Accepted(c) /\ flags.oidc =>
           LET r == request[c] IN
           /\ r.method # "DELETE" => Covers(r.binding, r.key[1], r.spec)
           /\ r.method # "POST" => Covers(r.binding, r.key[1], stored[r.key].spec)]_apiVars

\* What the catalog and the capabilities of a namespace offer agree, and a policy
\* for any resource they offer passes the checks of Create.
CatalogHonest ==
    \A c \in Callers :
        LET a == Authenticate(flags, Credential[c], {}, security, FALSE) IN
        a.status = 200 =>
            \A i \in Catalog(flags, a.security) :
                LET p == Capabilities(flags, a.security, i.namespace) IN
                /\ i.canWrite = p.canWrite
                /\ flags.oidc => i.wide = p.canManageNamespaceWidePolicies
                /\ i.canWrite => \A t \in i.resources :
                       /\ t \in onboarded[i.namespace]
                       /\ policyScopeAuthorized(flags, a.security, i.namespace,
                                                [targets |-> {t}, selector |-> FALSE])
=============================================================================
