-------------------------------- MODULE Rbac --------------------------------
(***************************************************************************)
(* The permission matrix of src/src/auth/rbac.ts, restricted to the        *)
(* permissions some modelled operation asks for (permissions that only     *)
(* guard reads, exports and AI calls are left out).  It is pure: every     *)
(* service calls requirePermission with the role its transaction read      *)
(* when it began.                                                          *)
(***************************************************************************)

\* membershipRole (the enum of src/src/db/schema.ts that rbac.ts imports).
Roles == {"SUPER_ADMIN", "ORG_ADMIN", "AUDIT_MANAGER", "LEAD_AUDITOR",
          "AUDITOR", "REVIEWER", "CLIENT", "VIEWER"}

Permissions ==
  {"organization.manage_users", "client_portal.pbc.respond",
   "engagement.create", "engagement.update", "engagement.close",
   "engagement.governance.manage", "engagement.plan.approve",
   "engagement.start_testing", "engagement.signoff", "engagement.freeze",
   "workpaper.create", "workpaper.update", "workpaper.review",
   "evidence.upload", "finding.create", "finding.update", "finding.close",
   "report.generate", "report.approve",
   "privacy.manage", "privacy.approve", "privacy.dsr.manage",
   "privacy.breach.manage", "privacy.alerts.manage",
   "privacy.assurance.propose", "privacy.assurance.decide",
   "compliance.profile.manage", "compliance.applicability.evaluate",
   "compliance.obligation.materialize", "compliance.monitoring.manage"}

\* What only administrators and, for the last one, clients hold.
AdministratorPermissions ==
  {"organization.manage_users",
   "privacy.manage", "privacy.approve", "privacy.dsr.manage",
   "privacy.breach.manage", "privacy.alerts.manage",
   "compliance.profile.manage", "compliance.applicability.evaluate",
   "compliance.obligation.materialize", "compliance.monitoring.manage",
   "client_portal.pbc.respond"}

AuditorPermissions ==
  {"workpaper.create", "workpaper.update", "evidence.upload",
   "finding.create", "finding.update", "privacy.assurance.propose"}

LeadAuditorPermissions ==
  AuditorPermissions \cup
  {"engagement.update", "engagement.governance.manage", "workpaper.review",
   "report.generate"}

ReviewerPermissions ==
  {"engagement.plan.approve", "engagement.signoff", "workpaper.review",
   "finding.update", "report.approve", "privacy.assurance.decide"}

ManagerPermissions == Permissions \ AdministratorPermissions

\* rolePermissions, one set per role.
RolePermissions ==
  [role \in Roles |->
     CASE role \in {"SUPER_ADMIN", "ORG_ADMIN"} -> Permissions
       [] role = "AUDIT_MANAGER" -> ManagerPermissions
       [] role = "LEAD_AUDITOR"  -> LeadAuditorPermissions
       [] role = "AUDITOR"       -> AuditorPermissions
       [] role = "REVIEWER"      -> ReviewerPermissions
       [] role = "CLIENT"        -> {"client_portal.pbc.respond"}
       [] role = "VIEWER"        -> {}]

\* requirePermission, as the guard it puts on an operation.
HasPermission(role, permission) == permission \in RolePermissions[role]

\* The roles the database triggers of 0011 accept for reviews, sign-offs and
\* report approvals, whatever the permission matrix says.
AssuranceRoles == {"AUDIT_MANAGER", "REVIEWER"}

=============================================================================
