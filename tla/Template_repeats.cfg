SPECIFICATION StepSpec
CONSTANTS
  e1 = e1
  Approvals = {a1}
  Executions = {e1}
  Payloads = {p1}
  Approvers = {r1, r2, r3}
  Rejecters = {}
  Kind <- OneTool
  Handoff = {}
  DiskMayFail = FALSE
  MidWriteCrash = FALSE
  MaxRestarts = 0
  Free = Free
  Torn = Torn
  NoApproval = NoApproval
  NoExecution = NoExecution
INVARIANTS
  OneExecutionPerStep
