SPECIFICATION FairSpec
CONSTANTS
  e1 = e1
  e2 = e2
  Approvals = {a1}
  Executions = {e1, e2}
  Payloads = {p1}
  Approvers = {r1, r2}
  Rejecters = {t1}
  Kind <- NotionAndRefresh
  Handoff = {e1}
  DiskMayFail = FALSE
  MidWriteCrash = FALSE
  MaxRestarts = 1
  Free = Free
  Torn = Torn
  NoApproval = NoApproval
  NoExecution = NoExecution
INVARIANTS
  CachedAnswerStands
  RecordedOutcomeIsReal
PROPERTIES
  FinishedStaysFinished
  GrantIsCarriedOut
  NotExecutedStaysSo
