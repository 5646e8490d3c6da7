SPECIFICATION Spec
CONSTANTS
  s1 = s1
  s2 = s2
  s3 = s3
  s4 = s4
  admin = admin
  clerk = clerk
  counsel = counsel
  Approvals = {a1}
  Steps = {s1, s2, s3, s4}
  Users = {admin, clerk, counsel}
  Roles <- MCRoles
  RoleOf <- MCRoleOf
  AdminRole = "admin"
  Templates <- MCTemplates
  DefaultTemplate <- MCDefaultTemplate
  Requests = {r1, r2}
  NoUser = NoUser
  NoApproval = NoApproval
INVARIANT RejectionIsTerminal
