------------------------------- MODULE Access -------------------------------
(***************************************************************************)
(* Role based access: the permission table every handler is guarded by.    *)
(* A handler runs for a user only when require_permission lets it start.    *)
(***************************************************************************)
CONSTANTS Users,   \* active accounts
          Role     \* the role column of each account

Roles == {"ADMIN", "ANALYST", "VIEWER"}

ASSUME RoleAssumption == Role \in [Users -> Roles]

ANALYST_PERMISSIONS ==
    {"VIEW_EVENTS", "MANAGE_INCIDENTS", "RUN_INVESTIGATION",
     "EXECUTE_RESPONSE", "EXPORT_REPORTS", "VIEW_AUDIT"}

ROLE_PERMISSIONS ==
    [r \in Roles |->
        CASE r = "ADMIN"   -> ANALYST_PERMISSIONS \cup
                              {"APPROVE_RESPONSE", "MANAGE_CONNECTORS", "MANAGE_RULES"}
          [] r = "ANALYST" -> ANALYST_PERMISSIONS
          [] OTHER         -> {"VIEW_EVENTS"}]

\* require_permission(permission) accepts user u.
May(u, permission) == permission \in ROLE_PERMISSIONS[Role[u]]
=============================================================================
