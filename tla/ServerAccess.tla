---------------------------- MODULE ServerAccess ----------------------------
(***************************************************************************)
(* Who a request of the registry server comes from and what it may see.    *)
(* services/server/auth.go, ui_browse.go, policy_api.go                    *)
(*                                                                         *)
(* A credential is the outcome of the cryptography: which verifier accepts *)
(* the token ("cli", "ui", "client"), a token of another issuer ("foreign")*)
(* or none of these.  An expression of a binding is the set of groups one  *)
(* of which it asks for, or it is broken.  A pattern is the set of names   *)
(* it matches.                                                             *)
(***************************************************************************)
EXTENDS Naturals

CONSTANT Nobody   \* no binding

\* The flags of the server: anonymous, oidc, ui, clients, serviceAccounts, writes.

Denied(status) == [status |-> status, binding |-> Nobody, security |-> Nobody]
Granted(binding, security) == [status |-> 200, binding |-> binding, security |-> security]

\* findGroupBinding, findSecurityGroupBinding: in the order of their names, the
\* first binding that matches; one that does not compile ends the search.
FirstBinding(bindings, groups) ==
    LET hits  == {b \in bindings : b.broken \/ b.groups \cap groups # {}}
        first == CHOOSE b \in hits : \A c \in hits : b.name <= c.name
    IN  IF hits = {} THEN Nobody ELSE IF first.broken THEN Nobody ELSE first

isResourceAllowed(binding, kind, name) ==
    IF kind = "module" THEN name \in binding.modules
    ELSE "*" \in binding.providers \/ name \in binding.providers

isSecurityResourceAllowed(binding, kind, name) ==
    binding # Nobody /\ isResourceAllowed(binding, kind, name)

\* The primary verifier, then the one of the UI client.
Verified(flags, cred) == cred.token = "cli" \/ (flags.ui /\ cred.token = "ui")

\* A client-credentials token stands for the group of its subject; it needs a
\* GroupBinding whatever the endpoint.
ClientCredentials(cred, bindings, security) ==
    LET b == FirstBinding(bindings, cred.groups)
    IN  IF b = Nobody THEN Denied(403) ELSE Granted(b, FirstBinding(security, cred.groups))

\* getKubeClientFromRequestWithGroupBinding: the registry endpoints need a
\* GroupBinding, the policy endpoints a SecurityGroupBinding.
Authenticate(flags, cred, bindings, security, requireGroupBinding) ==
    LET b == FirstBinding(bindings, cred.groups)
        s == FirstBinding(security, cred.groups)
    IN  CASE flags.anonymous -> Granted(Nobody, Nobody)
          [] ~flags.anonymous /\ ~flags.oidc ->
                IF cred.token = "none" THEN Denied(401) ELSE Granted(Nobody, Nobody)
          [] ~flags.anonymous /\ flags.oidc /\ Verified(flags, cred) ->
                IF cred.groups = {} \/ (requireGroupBinding /\ b = Nobody)
                                    \/ (~requireGroupBinding /\ s = Nobody)
                THEN Denied(403) ELSE Granted(b, s)
          [] OTHER ->
                IF flags.serviceAccounts /\ cred.token = "foreign" THEN Granted(Nobody, Nobody)
                ELSE IF flags.clients /\ cred.token = "client"
                     THEN ClientCredentials(cred, bindings, security)
                ELSE Denied(401)

\* browseAuthCheck: [ok, binding, all].  A token without a binding sees what is
\* public.
BrowseAuth(flags, cred, bindings) ==
    CASE flags.anonymous -> [ok |-> TRUE, binding |-> Nobody, all |-> TRUE]
      [] ~flags.anonymous /\ ~flags.oidc -> [ok |-> TRUE, binding |-> Nobody, all |-> FALSE]
      [] OTHER -> [ok |-> Verified(flags, cred) \/ (flags.clients /\ cred.token = "client"),
                   binding |-> FirstBinding(bindings, cred.groups), all |-> FALSE]

\* isBrowseVisible
Visible(pub, publicOnly, caller, kind, name) ==
    /\ publicOnly => pub
    /\ \/ caller.all \/ pub
       \/ caller.binding # Nobody /\ isResourceAllowed(caller.binding, kind, name)

-----------------------------------------------------------------------------
\* ScanPolicies: a policy is [targets: set of [kind, name], selector: BOOLEAN].

policyNamespaceAuthorized(flags, security, namespace) ==
    flags.oidc => /\ security # Nobody
                  /\ "*" \in security.namespaces \/ namespace \in security.namespaces

\* A policy without targets, or with a selector, is for those who manage the
\* whole namespace; else every target must be allowed.
policyScopeAuthorized(flags, security, namespace, policy) ==
    flags.oidc =>
        /\ policyNamespaceAuthorized(flags, security, namespace)
        /\ IF policy.selector \/ policy.targets = {} THEN security.wide
           ELSE \A t \in policy.targets : isSecurityResourceAllowed(security, t.kind, t.name)
=============================================================================
