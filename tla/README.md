# Verification of adnan-backend

This directory holds TLA+ models of the backend's governed write path and of
the services around it that keep state across an await, a thread, a crash or a
database transaction; the TLC runs that check them on small instances, and TLAPS
proofs of their safety properties for every value of the constants. All source paths are relative to the repository.

## 1. The system

A FastAPI backend (`gateway/gateway_server.py`) lets an assistant propose
commands and lets a human approve them. Nothing that writes may run without an
approval (CANON.md). The core is the path of one command:

    submit ──> approval (pending) ──> approve / reject ──> resume ──> gate ──> executor ──> outcome
    gateway    approval_state         ai_ops_router        execution_orchestrator        registry, decision record, cache

| component | state | operations | what must hold |
|---|---|---|---|
| approval store, `services/approval_state_service.py` | one dict, a JSON file, a TTL; one lock | create, approve, reject, reads (which expire) | one live approval per request; decisions are final; no grant after the TTL; restarts invent nothing |
| execution registry, `services/execution_registry.py` | execution -> command and state, a JSON file written in place | register, block, complete, fail | a finished execution stays finished |
| orchestrator, `services/execution_orchestrator.py` | none of its own | execute, resume, gate, dispatch, handoff log | an executor starts only after the grant, at most once; Notion writes only when armed |
| governance, `services/execution_governance_service.py` | none | evaluate | allows only what is approved, or read-only |
| approve / reject routes, `routers/ai_ops_router.py` | two idempotency dicts | approve (coroutine), reject and list_pending (threads) | repeated approve calls execute once; cached answers are true |
| decision records, `services/decision_outcome_registry.py` | records by approval and by execution | create_or_get, set_execution_outcome | a record says what was decided and what happened |
| Notion arming, `services/notion_armed_store.py`, `notion_ops_state.py` | principal -> arming with expiry, a file, a health flag | get, set, clear, load, flush | the gate opens only for a running, acknowledged arming |
| write gateway, `services/write_gateway/write_gateway.py` | pending tokens, idempotency records, handlers | request_write, commit_write, write | one write per key; a token is worth one commit; approved when it runs |
| job runner, `services/job_runner.py` | ids seen, with a limit of age | run_template, run_pending | one approval and one execution per step; a job begins once per window, and ends |
| chat, `routers/chat_router.py` with `ceo_conversation_state_store.py` | pending proposal and its time, the slot for a title, the goal in context | one turn per request: gate, replay, dismissal, title, agent, advisor | what was declined is not offered again; one task per question |
| knowledge, `knowledge_snapshot_service.py`, `session_snapshot_cache.py`, `notion_sync_service.py` | snapshot with TTL, live reads per session | refresh at the boundary of a chat, live read, refresh_snapshot, boot | what passes for fresh is fresh; a refresh is not undone |
| Notion batch, `services/notion_service.py` | reference map, results; the pages in Notion | execute, one operation after the other | a reported success is there; nothing refers to a failure |
| outcome feedback loop, `outcome_feedback_loop_service.py`, `jobs/ofl_scheduler.py`, `cron_service.py` | a row per decision and window, its marker column; row and advisory locks | schedule, update_execution_outcome, evaluate_due_reviews | a review is evaluated, once; rows show the last outcome |
| voice, `routers/voice_router.py` | active turn, its cancel flag, sequence number, send lock | receive, turn task, cancel, timeout, disconnect | events in order, nothing after a turn's end, every turn ends |
| task queue, `services/queue/queue_service.py`, `services/orchestrator/` | jobs, index by execution | submit, claim, ack, nack, cancel, process_once | terminal jobs stay terminal |
| agent router and load balancer | load, failures, cooldown per agent | can_accept, reserve, release | load returns to zero |
| memory, task and goal routers, advisor, autonomy, UI | a JSON file, SQLite, text | | see "What is not modelled" |

Interaction: submissions, approvals and template runs are coroutines of one
event loop; `reject` and `list_pending` are plain functions, which the framework
runs in threads; the Notion arming is written from a worker thread. They meet in
process-wide dicts behind locks and in three JSON files. A chat turn proposes
commands to that path and only reads of it whether Notion Ops is armed; a voice
turn awaits a chat turn; approve and reject schedule the reviews of what they
decided and write the outcome into them; `refresh_snapshot` is a command of the
path that fills what the chat reads; a batch is what the Notion executor does
inside its one await. The feedback loop's database is shared with the cron route
and with a scheduled job in a process of its own.

What is hard: a reject between approve's look and its grant; an expiry in the
same gap; crashes between the grant, the registry entry and the executor; files
whose write fails silently or is torn; answers cached from an execution that was
blocked; outcomes attached to a decision made long before; retries of what was
already done; a proposal loaded before an await and replayed after it was
declined; reads that overlap a refresh; a batch that fails between making a page
and relating it; runs under different locks that evaluate the same rows; sends
of two tasks through one lock, given up in the middle. `PROJECT.json` lists each hazard at its line.

## 2. The modules

| module | models | abstraction of |
|---|---|---|
| `ApprovalLifecycle` | what the approval store promises | the class docstring |
| `ApprovalState` | the approval store | implements `ApprovalLifecycle` when the disk works |
| `ApprovalState_proofs` | its theorems | |
| `GovernedEffects` | what the write path promises: grant, then at most one effect | |
| `GovernedExecution` | the write path: submit, approve, reject, resume, dispatch, outcome, crash; uses `ApprovalState` (INSTANCE) | implements `GovernedEffects` when the disk works |
| `GovernedExecution_proofs` | its type correctness | |
| `GovernedEffects_proofs` | that it implements `GovernedEffects` | |
| `GovernedOutcomes_proofs` | what becomes of an execution: registry, decision record, cached answer, and that a refused one is not executed | |
| `TemplateRuns` | `run_template` beside the approve requests; EXTENDS `GovernedExecution` | |
| `TemplateRuns_proofs` | its theorems | |
| `NotionArmed` | the arming store | |
| `WriteGateway` | the write gateway; uses `ApprovalState` | |
| `WriteGateway_proofs` | its theorems | |
| `JobBatches` | `run_pending` | |
| `ChatTurns` | the turns of one conversation | |
| `KnowledgeReads` | the snapshot, the session cache and the builds that fill them | |
| `NotionBatch` | a batch of Notion writes | |
| `FeedbackLoop` | the reviews of decisions | |
| `VoiceSession` | one voice connection | |
| `MCGovernedExecution`, `MCTemplateRuns`, `MCWriteGateway` | the instances TLC checks | |
| `MCServices`, `MCProgress` | the same for components that share no state | |
| `Services_proofs` | theorems of `NotionArmed`, `ChatTurns`, `KnowledgeReads`, `NotionBatch`, and of `MCServices`; uses `ApprovalState_proofs` (INSTANCE) | |
| `Progress_proofs` | theorems of `FeedbackLoop`, `JobBatches`, `VoiceSession`, and of `MCProgress` | |

Each module defines, before an operation, the faults of that operation that its
properties must notice ("Fault: ..."); no specification uses them.

### ApprovalState

`approvals` is `_GLOBAL_APPROVALS`, `disk` the file. Every operation holds the
lock from end to end, so each is one action: expire what is stale, persist if
that changed anything, then change and persist. `aged` stands for the clock:
whether `created_at` of an approval is older than the TTL. `_atomic_write_json`
replaces the file by a rename, so a crash leaves one file or the other. With
`DiskMayFail`, any write may leave the old file and any load may leave memory
empty: both are caught and logged. A command and its `payload_key` are one
payload. A file edited by hand is not modelled.

### GovernedExecution

A coroutine runs from one await to the next without another coroutine: `loop`
names it. Threads (reject, reads) fall between any two of its steps. The steps
of approve are those between which a thread can do something it sees:

| action | code |
|---|---|
| `SubmitCreate`, `SubmitRaw`, `SubmitExecute` | `/api/execute/raw`, `/api/execute`, `/api/proposals/execute`, from the approval on |
| `ApproveBegin` | cache lookup and the look at the approval's status |
| `ApproveDecide`, `ApproveRecord` | `ApprovalStateService.approve`, `create_or_get_for_approval` |
| `Resume`, `Dispatch`, `Return`, `ReturnLogged` | `resume`, the gate and the start of the executor, its end, the handoff log |
| `Answer` | `set_execution_outcome` and the cache |
| `RejectDecide`, `RejectRecord` | `reject` |
| `Refresh` | `refresh_snapshot` of the raw endpoint, which needs no approval |
| `Crash` | the process stops anywhere; a new one loads the files |

The executor is one await that may complete, fail or (a tool) be blocked. A
command without a principal and a store that cannot be read are disarmed to the
gate, as in the code. Abstracted: decision records are kept as they are across a
restart; approvals of a proposal wrapper, which approve refuses, are not
created; one worker process serves all requests (the locks are per process).

### TemplateRuns

Each call of `run_template` is modelled one step at a time, since a step's look
at the approvals, its registration and the start of its tool run without a
suspension. `supplied` is `inputs.approval_id`. Whether a step requires an
approval is what the template says at the call; one that says no is neither
prepared nor found pending, and goes to the orchestrator with the approval it
has, if any (`Asked`), where governance asks for a granted one all the same
(`StepRun`) or denies it (`StepDenied`, also for its initiator or directive).

### NotionArmed

`data`, `loaded`, `healthy` are `_STATE`, `file` the JSON file. `acked` and
`lost` are history: the setting last answered to a principal, and those whose
request a crash swallowed. `gate` is what the operation just made answered.

### WriteGateway

The asyncio locks are free whenever they are asked for (nothing suspends while
holding one), so the only suspension is the handler's await: a request is one
action, a commit two. `write` is a request and a commit. A token is its
request. `Injected` gives `_evaluate_policy` an evaluator that may say anything;
otherwise governance decides. A creator of approvals that raises or returns
none is the answer "failed" of `RequestBlocked`. An envelope without an
execution id changes no state and is left out.

### JobBatches

A call of `run_pending` is a list of jobs, each with a task; a task's state is
the await it is at: the semaphore, the orchestrator, the sleep before a retry,
the handoff log. `jbSeen` is `_seen_job_ids`, of the runner and not of the call.
The semaphore is that of the call and is given in the order of arrival. A job
without an agent for its role ends after its id was remembered, as in the code.
A retry's sleep and the clock that limits ids are not related: the sleep may
take any time. A caller may be cancelled, and its tasks with it.

### ChatTurns

A turn is a coroutine with four awaits that matter: the knowledge bundle, the
reads (memory, identity, targeted), `notion_ops_agent`, the advisor. `chatTurn`
has what it holds across them: the message, the proposal it loaded, the gate's
decision, whether it declined, the arming it read. `chatStore` is the entry of
the conversation store, whose every write is one locked call. A message is one
of the kinds the code tells apart: the words of a confirmation, a dismissal or a
cancellation and those too short to be interpreted overlap in different ways;
one of punctuation only is no title, and a title that speaks of "this goal"
asks for a title again.

| action | code |
|---|---|
| `ChatStart`, `ChatFailClosed` | load, gate and grounding |
| `ChatReplay`, `ChatClarify`, `ChatDismiss`, `ChatProceed` | the four answers of the gate |
| `ChatSetArmed` | the arming commands |
| `ChatSlotCancel`, `ChatTakeTitle`, `ChatAskTitle`, `ChatNoPlan`, `ChatWriteIntent` | the slot for a title and the write intents |
| `ChatQuestion` | answers from the snapshot, and the way to the advisor |
| `ChatAgentAnswers`, `ChatAgentFails`, `ChatAdvisorAnswers`, `ChatAdvisorFails` | what comes back |
| `ChatAbandon` | a voice turn that is cancelled or times out |
| `ChatAge` | the two limits of age |

### KnowledgeReads

What is read at a time is named after it, so "how old is what is served" is a
subtraction. A build notes when it begins (`began`) and reads later (`content`
is the time of its first read); a refresh that fails leaves the snapshot, a live
read is cached even if a query failed. `min` in `TargetedRead` is the time of
the snapshot the client brings.

### NotionBatch

Every call to Notion may fail, or fail after it was carried out, and a creation
may be answered without the id of its page: then its relations are skipped,
nothing can refer to it, and it is reported a success. `nbPages` is Notion, `nbReport` what the caller is told. A batch has an operation at least:
the code refuses an empty list (`notion_service.py:2815`). A batch is not atomic and nothing is
retried or undone, so a repeated batch makes its pages again.

### FeedbackLoop

A transaction's statements take effect together at `FbCommit`; its row locks
are `fbRun`. `fbRequest` is a request of `ai_ops_router.py`: approve schedules
and, when the execution has ended, synchronises on the event loop
(`LoopIsFree`), reject schedules in a thread. The row's marker column is
`marked`; what an evaluation computes is left out.

### VoiceSession

`vsQueue` is the lock of `_send_event` with its waiters: the head holds it and
has been written to the transport, which is full until `VoiceSent`. A number is
taken before the lock. A sender awaits its send, so it has one in the queue at
most, and that is what `Without` takes out when its task is cancelled (proved:
`OneSendEach`). `vsTask` is what a turn's task is at; `AfterCancel` says
what a cancellation makes of it. `vsStray` are the turns whose cancellation
`wait_for` swallowed because the answer came in the same moment; those with
parts to send see the flag at once and end, so only empty answers go on.

### MCServices, MCProgress

Their components share no state. A behaviour belongs to one of them (`part`) and
the others rest in an initial state, so the states of a run are the sum of the
components' and not their product. `MCServices` has the approval store among
them, in an instance with a working disk (`Reliable`). `MCProgress` has those with something that
must come about.

## 3. The runs

| run | checks | shows |
|---|---|---|
| `ApprovalState` | `TypeOK`, `OneLivePerRequest`, `DiskBehind`, `ExpiredIsTerminal`, `NoStaleGrant` | what holds of the approval store when reads and writes of its file fail |
| `Governed_crash` | `TypeOK`, `OneEffectPerGrant` | grant before effect, at most one, across crashes and torn registry files |
| `Governed_restart` | `CachedAnswerStands`, `RecordedOutcomeIsReal`, `FinishedStaysFinished`, `NotExecutedStaysSo`, `GrantIsCarriedOut` | cache, records and registry tell the truth, also after a restart; what was reported as not executed is not executed later; a grant is carried through |
| `Services` | `KeepsLifecycle`; `ServicesTypeOK`; `GateNeedsArming`, `AnswersArePersistent`; `DeclinedStaysDeclined`, `DeclinedTurnsLeaveNothing`, `OneTaskPerQuestion`; `FreshIsFresh`, `RefreshIsNotUndone`; `SuccessIsThere`, `RelatedToSuccesses` | the docstring's lifecycle of the approval store, across restarts, while its disk works; the arming gate under failed flushes, crashes and expiry; overlapping chat turns; overlapping and failing reads; batches that fail anywhere |
| `Gateway_keys` | `TypeOK`, `OneWritePerKey`, `ReplaysTheWrite`, `TokenSpentOnce`, `RunsOnlyApproved`, `KeysAreSettled` | idempotency and tokens; keys are settled |
| `Progress` | `ProgressTypeOK`; `OneLivePerStep`, `StepsRunOnGrants`; `BegunOncePerWindow`, `JobsEnd`; `EvaluatedOnce`, `RowsFollowTheRecord`, `DueIsEvaluated`; `WireInOrder`, `NothingSaidAfterDone`, `TurnsEnd` | template retries, overlapping job lists, reviews, voice turns: nothing twice, nothing left undone |

Deadlock is checked in the runs of the write path, where reads of the store are
always possible. `Services` and `Progress` do not check it: a batch, a list of
jobs, a conversation of three turns and a closed connection really are at their
end. That their work does not stop before is what the liveness properties say.

Six runs are expected to find a violation. Each shows a place where the code
does something else than a comment or docstring of it says:

| run | what is said | what happens |
|---|---|---|
| `Governed_handoff` | "Notion writes must never dispatch when Notion Ops is not ARMED" (`execution_orchestrator.py:366`) | the handoff log writes without the gate |
| `Governed_race` | a decision record is made "exactly when approval decision is made" (`decision_outcome_registry.py:106`) | a reject between look and grant leaves the record and the approval at odds |
| `Governed_lost_write` | storage "SURVIVES RELOAD/RESTART" (`approval_state_service.py:17`), the cache "prevents double-write" (`ai_ops_router.py:169`) | a failed write is only logged; after a restart the command runs again |
| `Gateway_denied` | "requires_approval" and "rejected" (`write_gateway.py:18`) | a write that only lacks an approval is answered as denied |
| `Template_repeats` | "does not create a second approval/execution" (`job_runner.py:185`) | each later call executes the step again |
| `Knowledge_refresh` | caches are invalidated so that chat "cannot keep serving stale snapshots after an explicit refresh" (`execution_orchestrator.py:548`) | a live read under way when they are cleared fills the session cache again, with what is older than the refresh |

Behaviours met while modelling that no run is spent on, since the code states no
contrary promise or the disagreement is one of wording:

- `inputs.approval_id` is used for every step of a template, so that the
  approval of one step executes another (`job_runner.py:133`).
- An id kept with a limit of age is forgotten while its job may still run; the
  same job is then begun beside it (`job_runner.py:52`). `BegunOncePerWindow`
  promises only what the limit gives.
- A plain question clears the pending proposal (`chat_router.py:6462`), although
  `docs/PENDING_PROPOSAL_BEHAVIOR_MATRIX.md:15` keeps it "in the background";
  armed, an advisor's wrapper proposals are dropped (6562).
- "ne" while nothing is pending is too short to interpret and is answered with a
  clarification, so it does not close the slot for a title (3283).
- A build that began earlier and ends later replaces a newer snapshot; a live
  read that failed in part is cached (2994).
- An operation of a batch that names its goal by a title looks it up before the
  batch makes a goal of that title (`notion_service.py:2852`).
- One row whose update fails rolls back every row of its batch, and comes first
  in the next run (`outcome_feedback_loop_service.py:775`).
- A voice turn cancelled as its empty answer arrives sends a final event and a
  second done (`voice_router.py:1037`).

### Bounds

- Approvals, executions: an approval concerns one execution, and a hazard at
  most two, so one or two executions with as many approvals; three approvals
  over two executions where deduplication is the question, so that an execution
  can have a decided approval, a live one and a fresh one.
- Requests: two approvers and a rejecter are enough for every pair to race. A
  coroutine serves one request of a process lifetime; a crash makes it new.
- `MaxRestarts` 2: a crash, and a crash of what the first one left.
- `MaxTime` 2 with a `TTL` of 1: an arming, its expiry, another arming.
- Three writes and three commits under one key: one that holds it, one that
  meets it in progress, one that meets it settled or failed.
- Three chat turns (`Conversation`): one that declines, proposes or asks; one
  that overlaps it with almost any message; one that confirms, declines or asks
  after both. Every pair of them may overlap at every await.
- `KnowledgeReads`, here and in `Knowledge_refresh`: a request and a refresh, four instants, limits of one: a
  build may begin before, in and after the other's, and outlive the limit.
- Three operations of a batch: a reference, what it names, and one that names
  that; 300 batches with references backwards, forwards, to one of two of the
  same name, and to nothing.
- Two calls of `run_pending`, one with a job twice and another job, the other
  with the same job; one place, one retry, ids kept for one instant or for good.
- Two windows of one decision, two approvals and a reject, a cron run and a job,
  one row a run: a row is behind another, and both runs meet. Decisions do not
  meet but in the limit, which the windows already exhaust.
- Three inputs of a voice client, answers of at most one part: a turn, the one
  that follows it, and one more event.

### Fairness

`FairSpec` of `GovernedExecution` assumes weak fairness of the steps of a
request that has begun: the event loop runs ready coroutines, executors' awaits
end (their clients have timeouts) and threads are scheduled. Nobody is assumed
to send a request, the clock need not move, the gate need not be armed and the
process need not crash. `GrantIsCarriedOut` then says that a granted command is
started and ends, or is answered BLOCKED by the gate. It excepts a restart: no
component of the code resumes a command whose process stopped. `FairSpec` of `WriteGateway`
assumes that handlers end; `KeysAreSettled` excepts a cancelled commit, whose
key nothing settles (see the hazards).

`ProgressSpec` has the fairness of its components, each in its own behaviours.
`JobsEnd`: the steps of each task are weakly fair, that is, the event loop runs
and what an executor awaits ends; nothing is assumed of the semaphore.
`DueIsEvaluated`: the scheduled job starts again and again (`render.yaml`, every
15 minutes), and a run that starts again and again commits once (strong
fairness: its failures are those of a network and of processes that die, not of
the row). The cron route need never be called. `TurnsEnd`: the transport drains
or the connection breaks, and each step of a turn's task is taken, where the
step that awaits the chat ends by its answer or by the turn's timeout. No client
is assumed to read, to cancel or to stay.

## 4. The proofs

`ApprovalState_proofs`, for any sets of approvals, executions and payloads, and
reads and writes that may fail (except for the last):

- `TypeCorrect`, `NoDuplicateApproval`, `OnlyTheStaleExpire`, `FileLagsBehind`:
  the invariants. None of the interesting ones is inductive alone. A restart
  makes the file the memory, so the invariant must say of the file what it says
  of memory: it is free of duplicates, and what it calls expired is stale; and
  it must know that memory never contradicts the file (`DiskBehind`). `create`
  needs that an id not yet issued names no record, in memory or in the file
  (`OnlyIssued`). `IInv` is their conjunction. `CommitKeeps` says once, for all
  operations, what a new store must satisfy, whichever writes succeed.
- `ExpiredStaysExpired`, `NoGrantAfterTTL`: action properties, from `IInv` and a
  lemma on what one operation does to one record.
- `ImplementsLifecycle`: with `DiskMayFail = FALSE`, file and memory agree
  between operations (`InStep`), a restart is an expiry, and every step is a
  step of `ApprovalLifecycle`.

`WriteGateway_proofs`, for any requests, commits and keys, any policy, and
commits that are cancelled at their await: `TypeCorrect`, `KeyIsWrittenOnce`,
`ReplayIsTheWrite`, `TokenIsWorthOneCommit`, `HandlerNeedsGrant`. The properties
follow from the agreement of two pieces of state: the record of a key and the
coroutines under it. While a handler runs, the record is "processing" by its
request (`HandlerHoldsKey`); once its write is applied, "succeeded" by it
(`WriteIsSettled`); and a "succeeded" record has such a write
(`SettledByWrite`). That a commit takes the token with it and no later request
brings it back (`TokenIsGone`) gives the token property, and that the store
takes no grant back (`StoreStep`) the last.

`GovernedExecution_proofs`, whichever reads and writes fail and wherever the
process stops: `TypeCorrect`, from an invariant on what coroutines and threads
have in hand (`TInv`). Every action changes the approvals by an operation of
`ApprovalState` or not at all, so each step of a proof rests on what that
operation does.

`GovernedEffects_proofs`: `GrantBeforeEffect`, with `DiskMayFail = FALSE` and
torn registry files allowed. Every step of the write path is a grant, an effect
or a stutter of `GovernedEffects`. The invariant `EInv` states why a second
start is impossible: a command has one approval (`OneApproval`), which its
registry entry names, in memory and in the file (`RegistryIsBound`), so that what
`resume` checks is this approval's grant; an approve request that found it
pending holds the event loop until the executor is started (`LoopIsHeld`), and
no start preceded it (`CoroutineIsFirst`), since an executor is started only for
a granted command (`EffectsAreGranted`) and this one was not. A thread can only
take the grant away. Where the file may fail the theorem is false: that is the
run `Governed_lost_write`.

`GovernedOutcomes_proofs`, while the approval file works: `AnswersStand`,
`NotExecutedIsFinal`, and, where a crash does not tear the registry file either, `FinishedIsFinal` and
`OutcomesAreReal`. All but the second say that an end, once reached, is not touched
again, so the question is who could still write the registry entry of an
execution, or the record or the answer of its command. An executor runs alone:
no second coroutine is past the grant of the same execution (`RunsAlone`), since
it must have found the approval pending, and nothing undoes a decision
(`SettlesOnce`); until its answer is cached its command is neither cached nor
taken up by another request (`IsFine`). For the registry after a restart, the
file must be the memory (`FileIsMemory`); for the records, the record that the
index names for an execution must be that of its own approval (`IndexIsOwn`),
and a refusal under way must be of an approval that exists (`RefusesKnown`),
so that the record it writes is one of that approval's own execution. With a torn registry
file executions are forgotten with their ends, so these two assume
`MidWriteCrash = FALSE`; `AnswersStand` does not need it, because the cache goes with
the process, nor does `NotExecutedIsFinal`: a record is only made of an approval
that is decided (`Settled`), a request takes up only a pending one, and nothing
makes a decided one pending again, so that once a command is recorded as not
executed no request has its grant still to use (`DeclInv`), whatever becomes of
the registry.

`TemplateRuns_proofs`, whatever the disk does and wherever the process stops:
`OneApprovalPerStep` and `StepNeedsGrant`. No working disk is needed, because the
file is at every moment some earlier store as a whole: what holds of every store
a step may leave in memory (`SoundFor`: records are of submitted executions, a
step has one live approval at most) holds of the file, and so of memory after a
reload. That a call looks for a live approval before it makes one, in the same
moment, gives the first theorem; for the second, a step that is about to start
holds the event loop (`LoopIsHeld`) and is registered (`HeldEntries`), under an
approval that is granted (`StepsAreGranted`): only a thread or the clock, neither
of which takes back a grant, comes between the look at the approval and the start.

`Services_proofs`:

- `NotionArmed`: `ArmedTypeCorrect`, `GateIsSound`, `ArmingsArePersistent`. The
  invariant adds `FileIsAsked`: what the file holds for a principal was answered
  to it, or asked for by a request a crash swallowed.
- `ChatTurns`, for any turns and messages: `ChatTypeCorrect`, `NoStaysNo`,
  `NoMeansNone`, `QuestionIsWorthOneTask`. A turn only goes forward
  (`OnlyForward`), and where it is tells what it can still do: a proposal that
  was made, pending or declined, belongs to a turn that is past making it
  (`MadeByThen`), so no turn makes it again; a turn that took a title or asked
  for one is past the slot (`TookByThen`, `AskedByThen`), so the count of tasks
  and that of questions grow by one turn each, and an open slot is the one
  question that is ahead.
- `KnowledgeReads`, for any readers, sessions and TTLs: `KnowledgeTypeCorrect`,
  `WhatIsFreshIsFresh`, `RefreshStands`. A build reads after it began and not
  before the last refresh (`BuildsReadLater`), and only a whole snapshot is kept
  (`SnapshotIsRead`). What makes a refresh stand is `RefreshIsFirst`: while one
  that began alone is under way, the caches and the other builds all date from
  after its beginning, because the refresh emptied the caches and no older build
  was running.
- `NotionBatch`, for any batches of any length and whichever calls fail:
  `BatchTypeCorrect`, `SuccessesAreThere`, `NothingHangsOnFailures`. What a
  parameter has become is a page that was there before or one that the report
  calls a success: a reference is entered with a success only
  and a known page only (`RefsAreReported`), and no such success loses its name
  (`SuccessesAreNamed`). So
  what a page is related to was reported, which is the last theorem. For the
  other, an operation that is still relating has its page (`MineIsThere`); it is
  a success without a call for its relations only if it was given none, and no
  later operation takes a page or a relation away from it (`PagesGrow`).
- `MCServices`: `ServicesTypeCorrect`; a behaviour of the module is one of each
  service (the lemma `ServicesAreThemselves`), so their theorems hold in it.
  `ServicesKeepLifecycle` is `ImplementsLifecycle` for the approval store the
  module has.

`Progress_proofs`:

- `FeedbackLoop`, for any decisions, windows, jobs and crons, and statements
  that fail: `FeedbackTypeCorrect`, `ReviewedOnce`, `RowsKeepUp`. The rows that
  runs hold are apart and not evaluated (`LocksAreApart`). A decision that is
  synchronised has all its rows unless scheduling failed for it
  (`RowsAreThere`), so that a later schedule, which may hold an older record,
  inserts none.
- `JobBatches`, for any lists of jobs, workers, retries and limits of age:
  `JobIsBegunOnce`. Who has begun a job leaves a mark: its id was seen then or
  later, or so long ago that it is forgotten (`SeenSince`). A task that begins
  finds no mark, so whoever began the same job did so before the window.
- `VoiceSession`, for any number of inputs and answer parts: `VoiceTypeCorrect`,
  `EventsInOrder`, `DoneIsTheEnd`. The queue of sends is in the order of its
  numbers, its head is the last that was written (`InLine`), and whatever is
  given up leaves that order. A turn whose end was sent, or is under way, has no
  part left to send (`OverIsSilent`) and none under way behind its end
  (`NoDeltaBehind`), also when the main loop or the cleanup of another turn has
  ended it. Both rest on `OneSendEach`: a task that has a send under way is in a
  state that waits for it, so a cancelled task leaves nothing behind in the
  queue. `SendsKeeps` says once, for all actions, what a new queue must satisfy.
- `MCProgress`: `ProgressTypeCorrect`, since a step of the module is one of one
  part.

Each section of these two modules needs only the module it names.

Assumptions: those of the modules (`DiskAssumption`, `ArmedAssumption`,
`GatewayAssumption`, `GovernedAssumption`, `TornAssumption`, `ChatAssumption`,
`KnowledgeAssumption`, `BatchAssumption`, `FeedbackAssumption`, `JobsAssumption`,
`VoiceAssumption`), and a working disk where a theorem says so; no others.

Every safety property that a passing run checks is proved, and its inductive
invariant was checked by TLC first. Only model-checked: liveness
(`GrantIsCarriedOut`, `KeysAreSettled`, `JobsEnd`, `DueIsEvaluated`, `TurnsEnd`),
which is beyond the prover, and the six runs that find a violation.

## 5. What is not modelled

- The task queue and its orchestrator: constructed by `dependencies.py` and run
  by tests only. Nothing suspends between a claim and its ack, so no other
  operation falls between them.
- Agent router and load balancer: every public operation takes the lock and then
  calls `_ensure`, which takes the same non-reentrant lock
  (`agent_load_balancer_service.py:47`). As wired no call gets there, because
  each `AgentRouter` has an empty registry of its own. There is no behaviour to
  check.
- Task and goal routers: they call the write gateway, for which `WriteGateway`
  has opaque handlers. Governance refuses their writes without an approval, so
  hardly anything behind them runs. Hazards: every request registers its own
  closure under a shared command name (`tasks_router.py:214`), a synchronous
  function is awaited (279), the goals in memory and in SQLite differ after a
  failed statement (`goals_service.py:284`).
- Memory: each `MemoryService` object keeps a copy of the file and saves all of
  it, so that the last to save wins; the code states no promise to check.
- CEO advisor, console snapshot, translation: prompts and parsing around a
  language model, one await of a turn with any result. They decide no later step
  by state of their own.
- The store of the Notion knowledge base fetches and clears synchronously on the
  event loop: its operations never overlap. The debounced syncs have no caller.
- `ceo_conversation_state_store.py:106` swallows a failed write, after which a
  declined proposal is pending again: left out, since with it
  `DeclinedStaysDeclined` is false and nothing in the code notices.
- Tool runtime, autonomy, workflow, SOP, recovery: one await, or decision tables
  without shared state. The Celery worker is started by nothing here. The
  frontend is user interface.
- Several worker processes on one set of files; the audit log, which no decision
  reads; the text of answers and prompts.
