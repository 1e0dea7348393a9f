-------------------------------- MODULE Roles --------------------------------
(***************************************************************************)
(* Roles and permissions of the web server (serve/rbac.py).                *)
(***************************************************************************)
EXTENDS Naturals, Sequences

Listing == {"workflows.list", "triggers.list", "jobs.list", "sources.list", "worker.status",
            "modules.list", "examples.list", "config.read", "dashboard.read", "audit.read"}

PERMISSIONS ==
    [admin    |-> {"*"},
     operator |-> Listing \cup
        {"workflows.create", "workflows.run", "workflows.delete", "triggers.create",
         "triggers.toggle", "triggers.run", "triggers.delete", "jobs.retry", "jobs.delete",
         "jobs.clear", "worker.start", "worker.stop", "worker.restart", "sources.ingest"},
     viewer   |-> Listing]

\* claims maps the paths at which the token holds a list to the names in it.
\* The configured path comes first, then the usual ones.
ClaimedNames(claims, path) ==
    LET paths == <<path, "realm_access.roles", "roles", "groups">>
        Held(i) == paths[i] \in DOMAIN claims
        IsFirst(i) == Held(i) /\ \A k \in 1..(i - 1) : ~Held(k)
    IN  IF \E i \in 1..4 : Held(i) THEN claims[paths[CHOOSE i \in 1..4 : IsFirst(i)]] ELSE {}

ExtractRoles(claims, path) ==
    LET known == ClaimedNames(claims, path) \cap DOMAIN PERMISSIONS
    IN  IF known = {} THEN {"viewer"} ELSE known

\* Mutation: any role that holds some permission of the kind will do.
CheckPermission_AnyRole(roles, permission) == roles # {}

CheckPermission(roles, permission) ==
    \E role \in roles : PERMISSIONS[role] \cap {"*", permission} # {}

HighestRole(roles) == CASE "admin" \in roles    -> "admin"
                        [] "operator" \in roles -> "operator"
                        [] OTHER                -> "viewer"
=============================================================================
