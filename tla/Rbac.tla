-------------------------------- MODULE Rbac --------------------------------
(***************************************************************************)
(* The role/permission table of core/rbac.py.  Endpoints check             *)
(* permissions; roles are bundles of them.                                 *)
(***************************************************************************)

Role == {"customer_support_agent", "banking_operations_executive",
         "compliance_officer", "risk_analyst", "loan_officer", "auditor",
         "manager", "system_admin"}

Permission == {"document:read", "document:upload", "workflow:read",
               "workflow:start", "workflow:approve", "workflow:reject",
               "workflow:escalate", "kyc:review", "fraud:review",
               "compliance:read", "loan:process", "audit:read", "agent:read",
               "agent:run", "search:read", "admin:read", "admin:manage"}

READ_ONLY == {"document:read", "workflow:read", "agent:read", "search:read",
              "compliance:read"}

ROLE_PERMISSIONS ==
  [r \in Role |->
     CASE r = "system_admin" -> Permission
       [] r = "manager" ->
            READ_ONLY \cup {"document:upload", "workflow:start",
                            "workflow:approve", "workflow:reject",
                            "workflow:escalate", "agent:run", "audit:read"}
       [] r = "banking_operations_executive" ->
            READ_ONLY \cup {"document:upload", "workflow:start", "agent:run"}
       [] r = "customer_support_agent" ->
            {"document:read", "document:upload", "workflow:read",
             "workflow:start", "search:read", "agent:run"}
       [] r = "compliance_officer" ->
            READ_ONLY \cup {"workflow:approve", "workflow:reject",
                            "workflow:escalate", "audit:read", "agent:run"}
       [] r = "risk_analyst" ->
            READ_ONLY \cup {"fraud:review", "workflow:approve",
                            "workflow:reject", "agent:run"}
       [] r = "loan_officer" ->
            READ_ONLY \cup {"document:upload", "loan:process",
                            "workflow:start", "agent:run"}
       [] r = "auditor" -> READ_ONLY \cup {"audit:read"}]

(* permissions_for_roles: the union over the known roles; a name that is   *)
(* no role contributes nothing.                                            *)
PermissionsForRoles(roles) ==
  UNION {ROLE_PERMISSIONS[r] : r \in roles \cap Role}

=============================================================================
