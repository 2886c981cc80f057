-------------------------------- MODULE Rbac --------------------------------
(***************************************************************************)
(* Roles, permissions and PolicyEngine.  A permission is <<resource,       *)
(* action>>, written "resource:action" in the code.                        *)
(***************************************************************************)

Crud == {"create", "read", "update", "delete"}

\* The actions on each resource.
Actions ==
    [org |-> {"read", "update", "delete", "manage_members", "manage_settings"},
     project |-> Crud,
     agent |-> Crud \cup {"deploy", "test"},
     conversation |-> {"read", "manage", "export"},
     kb |-> Crud,
     prompt |-> Crud \cup {"publish"},
     workflow |-> Crud \cup {"execute"},
     webhook |-> Crud,
     analytics |-> {"read", "export"},
     user |-> Crud \cup {"manage_roles"},
     billing |-> {"read", "manage"},
     audit |-> {"read"},
     api_key |-> {"create", "read", "delete"},
     channel |-> Crud,
     admin |-> {"full_access", "manage_tenants", "view_metrics"}]

Can(resource, actions) == {<<resource, a>> : a \in actions}
All(resource) == Can(resource, Actions[resource])

Permission == UNION {All(resource) : resource \in DOMAIN Actions}

Role == {"platform_admin", "org_owner", "org_admin", "project_manager",
         "developer", "analyst", "viewer"}

OrgOwner ==
    All("org") \cup All("project") \cup All("agent") \cup All("conversation")
    \cup All("kb") \cup All("prompt") \cup All("workflow") \cup All("webhook")
    \cup All("analytics") \cup All("user") \cup All("billing") \cup All("audit")
    \cup All("api_key") \cup All("channel")

OrgAdmin ==
    Can("org", {"read", "update", "manage_members", "manage_settings"})
    \cup All("project") \cup All("agent") \cup All("conversation")
    \cup All("kb") \cup All("prompt") \cup All("workflow") \cup All("webhook")
    \cup All("analytics") \cup Can("user", {"read", "create", "update", "manage_roles"})
    \cup Can("billing", {"read"}) \cup All("audit") \cup All("api_key") \cup All("channel")

ProjectManager ==
    Can("org", {"read"}) \cup Can("project", {"create", "read", "update"})
    \cup Can("agent", {"create", "read", "update", "deploy", "test"})
    \cup Can("conversation", {"read", "manage"}) \cup Can("kb", {"create", "read", "update"})
    \cup Can("prompt", {"create", "read", "update", "publish"})
    \cup Can("workflow", {"create", "read", "update", "execute"})
    \cup Can("webhook", {"create", "read", "update"}) \cup Can("analytics", {"read"})
    \cup Can("user", {"read"}) \cup Can("api_key", {"create", "read"})
    \cup Can("channel", {"read", "update"})

Developer ==
    Can("org", {"read"}) \cup Can("project", {"read"})
    \cup Can("agent", {"create", "read", "update", "test"}) \cup Can("conversation", {"read"})
    \cup Can("kb", {"create", "read", "update"}) \cup Can("prompt", {"create", "read", "update"})
    \cup Can("workflow", {"create", "read", "update", "execute"})
    \cup Can("webhook", {"create", "read", "update"}) \cup Can("analytics", {"read"})
    \cup Can("api_key", {"create", "read"}) \cup Can("channel", {"read"})

Analyst ==
    Can("org", {"read"}) \cup Can("project", {"read"}) \cup Can("agent", {"read"})
    \cup Can("conversation", {"read", "export"}) \cup Can("kb", {"read"})
    \cup Can("prompt", {"read"}) \cup All("analytics")

Viewer ==
    Can("org", {"read"}) \cup Can("project", {"read"}) \cup Can("agent", {"read"})
    \cup Can("conversation", {"read"}) \cup Can("kb", {"read"})
    \cup Can("prompt", {"read"}) \cup Can("analytics", {"read"})

\* ROLE_PERMISSIONS
RolePermissions ==
    [platform_admin |-> Permission, org_owner |-> OrgOwner, org_admin |-> OrgAdmin,
     project_manager |-> ProjectManager, developer |-> Developer,
     analyst |-> Analyst, viewer |-> Viewer]

-----------------------------------------------------------------------------
(* PolicyEngine                                                            *)

\* get_permissions_for_roles: the name of no role grants nothing.
PermissionsForRoles(roles) == UNION {RolePermissions[r] : r \in roles \cap Role}

HasPermission(roles, required) == required \in PermissionsForRoles(roles)
HasAnyPermission(roles, required) == PermissionsForRoles(roles) \cap required # {}
HasAllPermissions(roles, required) == \A p \in required : p \in PermissionsForRoles(roles)
=============================================================================
