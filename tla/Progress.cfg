SPECIFICATION ProgressSpec
CONSTANTS
  e1 = e1
  q1 = q1
  q2 = q2
  q3 = q3
  d1 = d1
  Approvals = {a1, a2}
  Executions = {e1}
  Payloads = {p1, p2}
  Approvers = {r1, r2, r3}
  Rejecters = {}
  Kind <- OneTool
  Handoff = {}
  DiskMayFail = FALSE
  MidWriteCrash = FALSE
  MaxRestarts = 0
  Free = Free
  Torn = Torn
  NoApproval = NoApproval
  NoExecution = NoExecution
  Pending <- JobLists
  MaxConcurrency = 1
  MaxRetries = 1
  KeepTimes = {1, 99}
  Forever = 99
  JbMaxTime = 2
  Decided = {d1}
  Windows = {1, 2}
  Requests = {q1, q2, q3}
  RequestFor <- Deciders
  Jobs = {job}
  Crons = {cron}
  FeedbackLimit = 1
  MaxDay = 2
  MaxInputs = 3
  MaxDeltas = 1
INVARIANTS
  ProgressTypeOK
  OneLivePerStep
  BegunOncePerWindow
  EvaluatedOnce
  RowsFollowTheRecord
  WireInOrder
  NothingSaidAfterDone
PROPERTIES
  StepsRunOnGrants
  JobsEnd
  DueIsEvaluated
  TurnsEnd
CHECK_DEADLOCK FALSE
