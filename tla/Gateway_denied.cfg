SPECIFICATION Spec
CONSTANTS
  q1 = q1
  q2 = q2
  q3 = q3
  k1 = k1
  e1 = e1
  Approvals = {a1}
  Executions = {e1}
  Payloads = {p1}
  DiskMayFail = FALSE
  Requests = {q1, q2}
  Commits = {c1, c2}
  Keys = {k1}
  KeyOf <- SameKey
  ExecOf <- OneExec
  Permitted = {q1, q2}
  Injected = FALSE
  MayCancel = FALSE
  NoApproval = NoApproval
  NoRequest = NoRequest
INVARIANTS
  ApprovalIsAskedFor
