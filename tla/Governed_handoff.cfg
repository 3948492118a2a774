SPECIFICATION Spec
CONSTANTS
  e1 = e1
  e2 = e2
  Approvals = {a1}
  Executions = {e1}
  Payloads = {p1}
  Approvers = {r1}
  Rejecters = {}
  Kind <- OneTool
  Handoff = {e1}
  DiskMayFail = FALSE
  MidWriteCrash = FALSE
  MaxRestarts = 0
  Free = Free
  Torn = Torn
  NoApproval = NoApproval
  NoExecution = NoExecution
PROPERTIES
  NotionWritesOnlyWhenArmed
