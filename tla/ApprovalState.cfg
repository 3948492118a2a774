SPECIFICATION Spec
CONSTANTS
  Approvals = {a1, a2, a3}
  Executions = {e1, e2}
  Payloads = {p1}
  DiskMayFail = TRUE
INVARIANTS
  TypeOK
  OneLivePerRequest
  DiskBehind
PROPERTIES
  ExpiredIsTerminal
  NoStaleGrant
