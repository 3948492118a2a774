SPECIFICATION ServicesSpec
CONSTANTS
  Principals = {ceo, admin}
  TTL = 1
  MaxTime = 2
  DiskMayFail = TRUE
  Absent = Absent
  Turns = {1, 2, 3}
  Said <- Conversation
  Earlier = Earlier
  NoProposal = NoProposal
  KnTurns = {t1}
  Refreshers = {r1}
  Sessions = {s1}
  SnapTTL = 1
  CacheTTL = 1
  KnMaxTime = 3
  Nothing = Nothing
  WriteBatches <- RequestedBatches
  Approvals = {a1, a2, a3}
  Executions = {e1, e2}
  Payloads = {p1}
PROPERTIES
  KeepsLifecycle
INVARIANTS
  ServicesTypeOK
  GateNeedsArming
  AnswersArePersistent
  DeclinedStaysDeclined
  DeclinedTurnsLeaveNothing
  OneTaskPerQuestion
  FreshIsFresh
  RefreshIsNotUndone
  SuccessIsThere
  RelatedToSuccesses
CHECK_DEADLOCK FALSE
