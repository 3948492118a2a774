-------------------------- MODULE GovernedExecution --------------------------
(***************************************************************************)
(* The governed write path: a command is submitted (gateway_server.py),    *)
(* blocked on an approval (ApprovalState), approved or rejected            *)
(* (ai_ops_router.py), resumed and dispatched (execution_orchestrator.py,  *)
(* execution_registry.py), and its outcome recorded                        *)
(* (decision_outcome_registry.py).                                         *)
(*                                                                         *)
(* Approve and submit are coroutines of one event loop: what lies between  *)
(* two awaits is not interrupted by another coroutine (`loop` names the    *)
(* one that runs).  Reject is a plain function, which the framework runs   *)
(* in a thread of its own, so its steps fall between any two of theirs,    *)
(* as do the thread that toggles Notion Ops, the clock and a crash.        *)
(***************************************************************************)
EXTENDS FiniteSets, Naturals

CONSTANTS Approvals, Executions, Payloads, DiskMayFail,   \* see ApprovalState
          Approvers,         \* the approve requests of one process lifetime
          Rejecters,         \* the reject requests of one process lifetime
          Kind,              \* execution -> what its command asks for
          Handoff,           \* executions whose metadata asks for a handoff log
          MidWriteCrash,     \* whether a crash may cut a write of the registry file
          MaxRestarts,       \* bound on the restarts
          Free,              \* the event loop runs no coroutine
          Torn,              \* the content of a registry file cut in the middle
          NoApproval, NoExecution

ASSUME GovernedAssumption ==
  /\ DiskMayFail \in BOOLEAN /\ MidWriteCrash \in BOOLEAN
  /\ Kind \in [Executions -> {"notion", "agent", "memory", "tool", "workflow", "refresh"}]
  /\ Handoff \subseteq Executions
  /\ MaxRestarts \in Nat
  /\ Free \notin Approvers \cup Executions
  /\ Approvers \cap Executions = {}
  /\ NoApproval \notin Approvals
  /\ NoExecution \notin Executions

VARIABLES
  approvals, disk, aged, issued,     \* the approval store, see ApprovalState
  registry,       \* ExecutionRegistry._GLOBAL: execution -> entry
  registryFile,   \* execution_registry.json
  decisions,      \* DecisionOutcomeRegistry: approval -> decision record
  decisionOf,     \* its _by_execution_id: execution -> approval decided last
  cache,          \* _EXECUTION_RESULT_CACHE: execution -> cached state
  linked,         \* the approvals in _APPROVAL_TO_EXECUTION
  armed,          \* whether notion_armed_store answers that Notion Ops is armed
  submission,     \* execution -> how far its submission is
  approver,       \* approve request -> its coroutine
  rejecter,       \* reject request -> its thread
  loop,           \* the coroutine that holds the event loop
  dispatched,     \* history: execution -> how often its executor was started
  restarts

Store == INSTANCE ApprovalState

storeVars    == <<approvals, disk, aged, issued>>
registryVars == <<registry, registryFile>>
decisionVars == <<decisions, decisionOf>>
cacheVars    == <<cache, linked>>
vars == <<storeVars, registryVars, decisionVars, cacheVars, armed, submission,
          approver, rejecter, loop, dispatched, restarts>>

Terminal == {"COMPLETED", "FAILED", "BLOCKED"}

NoEntry == [state |-> "absent"]
Entry   == [state: {"NONE", "EXECUTING"} \cup Terminal, approval: Approvals \cup {NoApproval}]
Entries == [Executions -> Entry \cup {NoEntry}]

ASSUME TornAssumption == Torn \notin Entries

NoDecision == [result |-> "absent"]
Decision   == [accepted: BOOLEAN, result: {"unknown", "not_executed", "success", "fail"}]

Idle == [pc |-> "idle", approval |-> NoApproval, exec |-> NoExecution, result |-> "none"]
Coroutine == [pc: {"idle", "checked", "decided", "recorded", "cleared", "running",
                   "logging", "finished", "done"},
              approval: Approvals \cup {NoApproval},
              exec: Executions \cup {NoExecution},
              result: {"none"} \cup Terminal]
Thread == [pc: {"idle", "decided", "done"}, approval: Approvals \cup {NoApproval}]

TypeOK ==
  /\ Store!TypeOK
  /\ registry \in Entries
  /\ registryFile \in Entries \cup {Torn}
  /\ decisions \in [Approvals -> Decision \cup {NoDecision}]
  /\ decisionOf \in [Executions -> Approvals \cup {NoApproval}]
  /\ cache \in [Executions -> {"none", "COMPLETED", "BLOCKED"}]
  /\ linked \subseteq Approvals
  /\ armed \in BOOLEAN
  /\ submission \in [Executions -> {"new", "created", "done"}]
  /\ approver \in [Approvers -> Coroutine]
  /\ rejecter \in [Rejecters -> Thread]
  /\ loop \in {Free} \cup Approvers \cup Executions
  /\ dispatched \in [Executions -> Nat]
  /\ restarts \in 0..MaxRestarts

-----------------------------------------------------------------------------
(* ExecutionRegistry: one dict under one lock, written to its file after every
   change.  The file is opened for writing in place: a write that fails leaves
   the old file or a torn one, and the failure is only logged. *)
Put(e, entry) ==
  /\ registry' = [registry EXCEPT ![e] = entry]
  /\ registryFile' \in {registry'} \cup (IF DiskMayFail THEN {registryFile, Torn} ELSE {})

(* register: a new command keeps the state and the approval of the entry it
   replaces where it brings none of its own. *)
Register(e, state, a) ==
  LET old == registry[e]
  IN  Put(e, [state    |-> IF state = "NONE" /\ old # NoEntry THEN old.state ELSE state,
              approval |-> IF a = NoApproval /\ old # NoEntry THEN old.approval ELSE a])

(* block, complete, fail: the entry is read again and its state replaced. *)
SetState(e, state) ==
  Put(e, [state    |-> state,
          approval |-> IF registry[e] = NoEntry THEN NoApproval ELSE registry[e].approval])

(* DecisionOutcomeRegistry.create_or_get_for_approval: the first decision
   recorded for an approval stays, whatever a later caller says. *)
RecordDecision(a, accepted) ==
  IF decisions[a] # NoDecision
    THEN UNCHANGED decisionVars
    ELSE /\ decisions' = [decisions EXCEPT ![a] =
               [accepted |-> accepted, result |-> IF accepted THEN "unknown" ELSE "not_executed"]]
         /\ decisionOf' = [decisionOf EXCEPT ![approvals[a].exec] = a]

(* Fault: the execution state is stored as it is. *)
RecordOutcomeRaw(e, state) ==
  LET a == decisionOf[e]
  IN  /\ decisions' = IF a = NoApproval THEN decisions
                        ELSE [decisions EXCEPT ![a].result = state]
      /\ UNCHANGED decisionOf

(* Fault: everything that is not completed counts as a failure. *)
RecordOutcomeBinary(e, state) ==
  LET a == decisionOf[e]
  IN  /\ decisions' = IF a = NoApproval THEN decisions
                        ELSE [decisions EXCEPT ![a].result =
                                IF state = "COMPLETED" THEN "success" ELSE "fail"]
      /\ UNCHANGED decisionOf

(* DecisionOutcomeRegistry.set_execution_outcome, on the record the execution
   was last decided by. *)
RecordOutcome(e, state) ==
  LET a == decisionOf[e]
  IN  /\ decisions' = IF a = NoApproval THEN decisions
                        ELSE [decisions EXCEPT ![a].result =
                                CASE state = "FAILED"    -> "fail"
                                  [] state = "COMPLETED" -> "success"
                                  [] state = "BLOCKED"   -> "not_executed"]
      /\ UNCHANGED decisionOf

-----------------------------------------------------------------------------
(* Fault: the handler awaits between the approval and the registration. *)
SubmitCreateAwaiting(e, a) ==
  /\ loop = Free
  /\ submission[e] = "new" /\ Kind[e] # "refresh"
  /\ \E p \in Payloads : Store!Create(e, p, a)
  /\ submission' = [submission EXCEPT ![e] = "created"]
  /\ UNCHANGED <<registryVars, decisionVars, cacheVars, armed, approver, rejecter, loop,
                 dispatched, restarts>>

(* Submitting a command: the approval is created, then the command registered,
   in one stretch of the event loop.  uuid4 names every submission anew. *)
SubmitCreate(e, a) ==
  /\ loop = Free
  /\ submission[e] = "new" /\ Kind[e] # "refresh"
  /\ \E p \in Payloads : Store!Create(e, p, a)
  /\ submission' = [submission EXCEPT ![e] = "created"]
  /\ loop' = e
  /\ UNCHANGED <<registryVars, decisionVars, cacheVars, armed, approver, rejecter,
                 dispatched, restarts>>

Created(e) == CHOOSE a \in Approvals : approvals[a] # Store!NoRecord /\ approvals[a].exec = e

(* /api/execute/raw registers and answers BLOCKED. *)
SubmitRaw(e) ==
  /\ submission[e] = "created"
  /\ Register(e, "NONE", Created(e))
  /\ submission' = [submission EXCEPT ![e] = "done"]
  /\ loop' = Free
  /\ UNCHANGED <<storeVars, decisionVars, cacheVars, armed, approver, rejecter,
                 dispatched, restarts>>

(* /api/execute and /api/proposals/execute also call the orchestrator's
   execute: governance denies the command before it looks at the approval, or
   finds the approval not granted, and the entry is blocked. *)
SubmitExecute(e) ==
  /\ submission[e] = "created"
  /\ ~Store!FullyApproved(Created(e))
  /\ Store!Touch \/ UNCHANGED storeVars
  /\ Register(e, "BLOCKED", Created(e))
  /\ submission' = [submission EXCEPT ![e] = "done"]
  /\ loop' = Free
  /\ UNCHANGED <<decisionVars, cacheVars, armed, approver, rejecter, dispatched, restarts>>

-----------------------------------------------------------------------------
(* Fault: an approval that was already granted is taken up again. *)
ApproveBeginAgain(r, a) ==
  /\ loop = Free
  /\ approver[r].pc = "idle"
  /\ LET open == Store!Current[a].status \in {"pending", "approved"}
     IN  /\ Store!Touch
         /\ approver' = [approver EXCEPT ![r] =
               [Idle EXCEPT !.pc = IF open THEN "checked" ELSE "done", !.approval = a]]
         /\ loop' = IF open THEN r ELSE Free
  /\ UNCHANGED <<registryVars, decisionVars, cacheVars, armed, submission, rejecter,
                 dispatched, restarts>>

(* POST /approval/approve, first stretch: the cached result, or the approval's
   status, ends the request unless the approval is pending. *)
ApproveBegin(r, a) ==
  /\ loop = Free
  /\ approver[r].pc = "idle"
  /\ LET cached == a \in linked /\ cache[approvals[a].exec] # "none"
         open   == ~cached /\ Store!Current[a].status = "pending"
     IN  /\ IF cached THEN UNCHANGED storeVars ELSE Store!Touch
         /\ approver' = [approver EXCEPT ![r] =
               [Idle EXCEPT !.pc = IF open THEN "checked" ELSE "done", !.approval = a]]
         /\ loop' = IF open THEN r ELSE Free
  /\ UNCHANGED <<registryVars, decisionVars, cacheVars, armed, submission, rejecter,
                 dispatched, restarts>>

(* The grant.  A thread may have rejected the approval since it was looked at:
   the store then returns it unchanged and the request goes on. *)
ApproveDecide(r) ==
  LET a == approver[r].approval
      expired == Store!Current[a].status = "expired"
  IN  /\ approver[r].pc = "checked"
      /\ Store!Approve(a)
      /\ approver' = [approver EXCEPT ![r].pc = IF expired THEN "done" ELSE "decided",
                                      ![r].exec = approvals[a].exec]
      /\ loop' = IF expired THEN Free ELSE r
      /\ UNCHANGED <<registryVars, decisionVars, cacheVars, armed, submission, rejecter,
                     dispatched, restarts>>

ApproveRecord(r) ==
  /\ approver[r].pc = "decided"
  /\ RecordDecision(approver[r].approval, TRUE)
  /\ approver' = [approver EXCEPT ![r].pc = "recorded"]
  /\ UNCHANGED <<storeVars, registryVars, cacheVars, armed, submission, rejecter, loop,
                 dispatched, restarts>>

(* resume asks for the approval the entry names, if it names one. *)
MayResume(e) ==
  registry[e].approval \in Approvals /\ Store!FullyApproved(registry[e].approval)

(* resume: an execution the registry does not hold ends the request (404); one
   whose approval is not granted is answered BLOCKED and left as it is; any
   other is EXECUTING from here on. *)
Resume(r) ==
  LET e == approver[r].exec
  IN  /\ approver[r].pc = "recorded"
      /\ \/ /\ registry[e] = NoEntry
            /\ approver' = [approver EXCEPT ![r].pc = "done"]
            /\ loop' = Free
            /\ UNCHANGED <<storeVars, registryVars>>
         \/ /\ registry[e] # NoEntry
            /\ ~MayResume(e)
            /\ Store!Touch
            /\ approver' = [approver EXCEPT ![r].pc = "finished", ![r].result = "BLOCKED"]
            /\ UNCHANGED <<registryVars, loop>>
         \/ /\ registry[e] # NoEntry
            /\ MayResume(e)
            /\ Store!Touch
            /\ Register(e, "EXECUTING", NoApproval)
            /\ approver' = [approver EXCEPT ![r].pc = "cleared"]
            /\ UNCHANGED loop
      /\ UNCHANGED <<decisionVars, cacheVars, armed, submission, rejecter, dispatched, restarts>>

(* _execute_after_approval up to its first suspension: the Notion gate of a
   Notion write, or the start of the executor the command asks for. *)
Dispatch(r) ==
  LET e == approver[r].exec
      gated == Kind[e] = "notion" /\ ~armed
  IN  /\ approver[r].pc = "cleared"
      /\ \/ /\ gated
            /\ SetState(e, "BLOCKED")
            /\ approver' = [approver EXCEPT ![r].pc = "finished", ![r].result = "BLOCKED"]
            /\ UNCHANGED <<loop, dispatched>>
         \/ /\ ~gated
            /\ dispatched' = [dispatched EXCEPT ![e] = @ + 1]
            /\ approver' = [approver EXCEPT ![r].pc = "running"]
            /\ loop' = Free
            /\ UNCHANGED registryVars
      /\ UNCHANGED <<storeVars, decisionVars, cacheVars, armed, submission, rejecter, restarts>>

(* The raw path runs a refresh_snapshot at once: governance allows a read-only
   directive without an approval. *)
Refresh(r, e) ==
  /\ loop = Free
  /\ approver[r].pc = "idle"
  /\ submission[e] = "new" /\ Kind[e] = "refresh"
  /\ submission' = [submission EXCEPT ![e] = "done"]
  /\ Register(e, "EXECUTING", NoApproval)
  /\ approver' = [approver EXCEPT ![r] = [Idle EXCEPT !.pc = "cleared", !.exec = e]]
  /\ loop' = r
  /\ UNCHANGED <<storeVars, decisionVars, cacheVars, armed, rejecter, dispatched, restarts>>

(* What the awaited executor may come back with.  An exception is a failure;
   memory_write turns its own failures into a completed result, and only a
   tool call may be blocked by its own policy. *)
Outcomes(kind) == {"COMPLETED", "FAILED"} \cup (IF kind = "tool" THEN {"BLOCKED"} ELSE {})

(* Fault: a failure is answered, and cached, as a completed execution. *)
ReturnFailSoft(r, outcome) ==
  LET e == approver[r].exec
  IN  /\ loop = Free
      /\ approver[r].pc = "running"
      /\ outcome \in Outcomes(Kind[e])
      /\ SetState(e, outcome)
      /\ approver' = [approver EXCEPT ![r].pc = "finished", ![r].result = "COMPLETED"]
      /\ loop' = r
      /\ UNCHANGED <<storeVars, decisionVars, cacheVars, armed, submission, rejecter,
                     dispatched, restarts>>

(* The executor's failure, refusal or result ends the execution, unless a
   handoff log is asked for: then the coroutine first awaits a Notion write of
   its own, which no gate guards.  Delegation and refresh return before it. *)
Return(r, outcome) ==
  LET e == approver[r].exec
      logs == outcome = "COMPLETED" /\ e \in Handoff /\ Kind[e] \notin {"agent", "refresh"}
  IN  /\ loop = Free
      /\ approver[r].pc = "running"
      /\ outcome \in Outcomes(Kind[e])
      /\ \/ /\ logs
            /\ approver' = [approver EXCEPT ![r].pc = "logging"]
            /\ UNCHANGED <<registryVars, loop>>
         \/ /\ ~logs
            /\ SetState(e, outcome)
            /\ approver' = [approver EXCEPT ![r].pc = "finished", ![r].result = outcome]
            /\ loop' = r
      /\ UNCHANGED <<storeVars, decisionVars, cacheVars, armed, submission, rejecter,
                     dispatched, restarts>>

(* The handoff write is over, one way or the other. *)
ReturnLogged(r) ==
  /\ loop = Free
  /\ approver[r].pc = "logging"
  /\ SetState(approver[r].exec, "COMPLETED")
  /\ approver' = [approver EXCEPT ![r].pc = "finished", ![r].result = "COMPLETED"]
  /\ loop' = r
  /\ UNCHANGED <<storeVars, decisionVars, cacheVars, armed, submission, rejecter,
                 dispatched, restarts>>

(* The rest of approve: the outcome goes to the decision record, and to the
   cache unless it is a failure.  A refresh has neither. *)
Answer(r) ==
  LET a == approver[r].approval
      e == approver[r].exec
      result == approver[r].result
  IN  /\ approver[r].pc = "finished"
      /\ IF a = NoApproval THEN UNCHANGED decisionVars ELSE RecordOutcome(e, result)
      /\ IF a = NoApproval \/ result = "FAILED"
           THEN UNCHANGED cacheVars
           ELSE cache' = [cache EXCEPT ![e] = result] /\ linked' = linked \cup {a}
      /\ approver' = [approver EXCEPT ![r].pc = "done"]
      /\ loop' = Free
      /\ UNCHANGED <<storeVars, registryVars, armed, submission, rejecter, dispatched, restarts>>

-----------------------------------------------------------------------------
(* POST /approval/reject, in its thread: the store's answer is recorded as a
   refusal whatever status it came back with. *)
RejectDecide(t, a) ==
  /\ rejecter[t].pc = "idle"
  /\ Store!Reject(a)
  /\ rejecter' = [rejecter EXCEPT ![t] =
        [pc |-> IF approvals[a] = Store!NoRecord THEN "done" ELSE "decided", approval |-> a]]
  /\ UNCHANGED <<registryVars, decisionVars, cacheVars, armed, submission, approver, loop,
                 dispatched, restarts>>

RejectRecord(t) ==
  /\ rejecter[t].pc = "decided"
  /\ RecordDecision(rejecter[t].approval, FALSE)
  /\ rejecter' = [rejecter EXCEPT ![t].pc = "done"]
  /\ UNCHANGED <<storeVars, registryVars, cacheVars, armed, submission, approver, loop,
                 dispatched, restarts>>

(* A reader of the approvals (list_pending) in a thread, or the clock. *)
Elsewhere ==
  /\ Store!Touch \/ \E a \in Approvals : Store!Age(a)
  /\ UNCHANGED <<registryVars, decisionVars, cacheVars, armed, submission, approver, rejecter,
                 loop, dispatched, restarts>>

(* Notion Ops is armed, disarmed, or its arming expires. *)
Toggle ==
  /\ armed' = ~armed
  /\ UNCHANGED <<storeVars, registryVars, decisionVars, cacheVars, submission, approver,
                 rejecter, loop, dispatched, restarts>>

(* Fault: the new process keeps the approvals but not the executions. *)
CrashForgetting ==
  /\ restarts < MaxRestarts
  /\ restarts' = restarts + 1
  /\ Store!Restart
  /\ registry' = [e \in Executions |-> NoEntry]
  /\ cache' = [e \in Executions |-> "none"]
  /\ linked' = {}
  /\ submission' = [e \in Executions |-> IF submission[e] = "new" THEN "new" ELSE "done"]
  /\ approver' = [r \in Approvers |-> Idle]
  /\ rejecter' = [t \in Rejecters |-> [pc |-> "idle", approval |-> NoApproval]]
  /\ loop' = Free
  /\ UNCHANGED <<registryFile, decisionVars, armed, dispatched>>

(* The process stops wherever it is and a new one starts from the files; a torn
   or unreadable registry file is not loaded.  The clients' requests are lost,
   and new ones come. *)
Crash ==
  /\ restarts < MaxRestarts
  /\ restarts' = restarts + 1
  /\ Store!Restart
  /\ \E file \in {registryFile} \cup (IF MidWriteCrash THEN {Torn} ELSE {}) :
       /\ registryFile' = file
       /\ \E loaded \in {file} \cup (IF DiskMayFail THEN {Torn} ELSE {}) :
            registry' = IF loaded = Torn THEN [e \in Executions |-> NoEntry] ELSE loaded
  /\ cache' = [e \in Executions |-> "none"]
  /\ linked' = {}
  /\ submission' = [e \in Executions |-> IF submission[e] = "new" THEN "new" ELSE "done"]
  /\ approver' = [r \in Approvers |-> Idle]
  /\ rejecter' = [t \in Rejecters |-> [pc |-> "idle", approval |-> NoApproval]]
  /\ loop' = Free
  /\ UNCHANGED <<decisionVars, armed, dispatched>>

-----------------------------------------------------------------------------
Init ==
  /\ Store!Init
  /\ registry = [e \in Executions |-> NoEntry]
  /\ registryFile = registry
  /\ decisions = [a \in Approvals |-> NoDecision]
  /\ decisionOf = [e \in Executions |-> NoApproval]
  /\ cache = [e \in Executions |-> "none"]
  /\ linked = {}
  /\ armed \in BOOLEAN
  /\ submission = [e \in Executions |-> "new"]
  /\ approver = [r \in Approvers |-> Idle]
  /\ rejecter = [t \in Rejecters |-> [pc |-> "idle", approval |-> NoApproval]]
  /\ loop = Free
  /\ dispatched = [e \in Executions |-> 0]
  /\ restarts = 0

(* The steps of a request that has begun. *)
Submit(e) == SubmitRaw(e) \/ SubmitExecute(e)

Proceed(r) ==
  \/ ApproveDecide(r) \/ ApproveRecord(r) \/ Resume(r) \/ Dispatch(r)
  \/ \E outcome \in Terminal : Return(r, outcome)
  \/ ReturnLogged(r) \/ Answer(r)

Next ==
  \/ \E e \in Executions : Submit(e) \/ \E a \in Approvals : SubmitCreate(e, a)
  \/ \E r \in Approvers :
       \/ Proceed(r)
       \/ \E a \in Approvals : ApproveBegin(r, a)
       \/ \E e \in Executions : Refresh(r, e)
  \/ \E t \in Rejecters : RejectRecord(t) \/ \E a \in Approvals : RejectDecide(t, a)
  \/ Elsewhere \/ Toggle \/ Crash

(* The event loop runs what is ready and the executors' awaits end (they have
   timeouts); threads are scheduled.  No client has to send a request. *)
Fairness ==
  /\ \A e \in Executions : WF_vars(Submit(e))
  /\ \A r \in Approvers : WF_vars(Proceed(r))
  /\ \A t \in Rejecters : WF_vars(RejectRecord(t))

Spec == Init /\ [][Next]_vars

FairSpec == Spec /\ Fairness

-----------------------------------------------------------------------------
Bound(e) == {a \in Approvals : approvals[a] # Store!NoRecord /\ approvals[a].exec = e}

Granted(e) == \E a \in Bound(e) : approvals[a].status = "approved"

(* The write path implements GovernedEffects: an executor is started only for
   a command whose own approval was granted, a grant outlives a restart, and
   an executor is started at most once however approve requests, rejections,
   expiries and restarts fall. *)
Commands == {e \in Executions : Kind[e] # "refresh"}
Effects == INSTANCE GovernedEffects
             WITH granted <- {c \in Commands : Granted(c)},
                  effects <- [c \in Commands |-> dispatched[c]]
OneEffectPerGrant == Effects!Spec

(* A command that approve reported as not executed (the Notion gate was closed,
   a rejection overtook the grant, the tool's policy refused) is not executed
   under that decision later: not when Notion Ops is armed and the approval
   approved once more, and not after a restart, which empties the cache that
   answers such a request. *)
NotExecutedStaysSo ==
  [][\A a \in Approvals :
       decisions[a].result = "not_executed" /\ decisions[a].accepted
         => dispatched'[approvals[a].exec] = dispatched[approvals[a].exec]]_vars

(* An execution that has completed or failed is never executing again, blocked
   again or forgotten, in memory or by a restart. *)
FinishedStaysFinished ==
  [][\A e \in Executions :
       registry[e].state \in {"COMPLETED", "FAILED"} => registry'[e].state = registry[e].state]_vars

(* A decision record that reports an execution reports what the registry says
   of it, and of an approval that was granted.  The record is found by
   execution id after the executor returned, long after it was made. *)
RecordedOutcomeIsReal ==
  \A a \in Approvals :
    decisions[a].result \in {"success", "fail"} =>
      /\ approvals[a].status = "approved"
      /\ registry[approvals[a].exec].state =
           (IF decisions[a].result = "success" THEN "COMPLETED" ELSE "FAILED")

(* What approve answers from its cache is final: the cached state is the
   registry's, except that a request overtaken by a rejection is answered
   BLOCKED for an execution that was never resumed. *)
CachedAnswerStands ==
  \A e \in Executions :
    cache[e] # "none" => \/ registry[e].state = cache[e]
                         \/ cache[e] = "BLOCKED" /\ ~Granted(e) /\ dispatched[e] = 0

(* Unless the process is restarted every grant is carried through: the
   execution it approves is started and ends, or the Notion gate blocks it and
   approve answers so. *)
GrantIsCarriedOut ==
  \A e \in Commands :
    Granted(e) ~> \/ registry[e].state \in Terminal /\ dispatched[e] = 1
                  \/ registry[e].state = "BLOCKED" /\ cache[e] = "BLOCKED"
                  \/ restarts > 0

(* "Notion writes must never dispatch when Notion Ops is not ARMED"
   (execution_orchestrator.py, execute), the handoff log's write included. *)
NotionWritesOnlyWhenArmed ==
  [][\A r \in Approvers :
       \/ /\ approver[r].pc = "cleared" /\ approver'[r].pc = "running"
          /\ Kind[approver[r].exec] = "notion"
       \/ approver[r].pc = "running" /\ approver'[r].pc = "logging"
       => armed]_vars

(* A decision record is made "exactly when approval decision is made"
   (decision_outcome_registry.py): what it calls accepted was approved, what
   it calls refused was not. *)
DecisionIsTheApprovals ==
  \A a \in Approvals :
    decisions[a] # NoDecision => (decisions[a].accepted <=> approvals[a].status = "approved")

(* Approvals are kept in storage that "SURVIVES RELOAD/RESTART"
   (approval_state_service.py), so that a command is not executed again by a
   second approve request after a restart. *)
AtMostOneEffect == \A e \in Executions : dispatched[e] <= 1
=============================================================================
