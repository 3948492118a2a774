SPECIFICATION Spec
CONSTANTS
  e1 = e1
  e2 = e2
  Approvals = {a1}
  Executions = {e1}
  Payloads = {p1}
  Approvers = {r1, r2}
  Rejecters = {t1}
  Kind <- OneTool
  Handoff = {e1}
  DiskMayFail = FALSE
  MidWriteCrash = TRUE
  MaxRestarts = 2
  Free = Free
  Torn = Torn
  NoApproval = NoApproval
  NoExecution = NoExecution
INVARIANTS
  TypeOK
PROPERTIES
  OneEffectPerGrant
