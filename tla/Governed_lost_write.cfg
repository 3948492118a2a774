SPECIFICATION Spec
CONSTANTS
  e1 = e1
  e2 = e2
  Approvals = {a1}
  Executions = {e1}
  Payloads = {p1}
  Approvers = {r1}
  Rejecters = {}
  Kind <- OneNotion
  Handoff = {}
  DiskMayFail = TRUE
  MidWriteCrash = FALSE
  MaxRestarts = 1
  Free = Free
  Torn = Torn
  NoApproval = NoApproval
  NoExecution = NoExecution
INVARIANTS
  AtMostOneEffect
