----------------------------- MODULE TemplateRuns -----------------------------
(***************************************************************************)
(* Job templates, services/job_runner.py run_template: a caller runs the   *)
(* steps of a template, again and again, each under an execution id made   *)
(* of the job and the step.  A step that needs an approval gets one; once  *)
(* it is granted the step is executed by the next run_template, and also   *)
(* by the approve request itself, which resumes what is registered         *)
(* (GovernedExecution).  Whether a step needs one is what the template     *)
(* says at the time of the call; governance asks for one whatever it says. *)
(*                                                                         *)
(* A call is modelled one step at a time: a step's look at the approvals,  *)
(* its registration and its dispatch run without a suspension.             *)
(***************************************************************************)
EXTENDS GovernedExecution

VARIABLES steps   \* the executions that are steps of a template

stepVars == <<vars, steps>>

OwnsStep(r, e) ==
  /\ loop = Free
  /\ approver[r].pc = "idle"
  /\ Kind[e] = "tool"
  /\ e \in steps \/ submission[e] = "new"
  /\ steps' = steps \cup {e}
  /\ submission' = [submission EXCEPT ![e] = "done"]

(* _find_existing_approval_by_execution_id; there is at most one, see
   OneLivePerStep. *)
Alive(e) == {a \in Approvals : Store!Current[a].status \in {"pending", "approved"}
                               /\ Store!Current[a].exec = e}

Conflict(e, p) == \E a \in Alive(e) : Store!Current[a].payload # p

(* The approval the step goes by: the one in the inputs, else its own. *)
GoesBy(e, supplied) == IF supplied # NoApproval THEN {supplied} ELSE Alive(e)

(* The approval the orchestrator's execute asks governance about: register has
   filled in the one the step was registered under before. *)
Asked(e, supplied) ==
  IF GoesBy(e, supplied) # {} THEN GoesBy(e, supplied)
    ELSE {IF registry[e] = NoEntry THEN NoApproval ELSE registry[e].approval}

CallEnds(r) == /\ approver' = [approver EXCEPT ![r].pc = "done"]
               /\ UNCHANGED loop

(* The same step with other inputs: idempotency_conflict. *)
StepConflict(r, e, p) ==
  /\ OwnsStep(r, e)
  /\ Conflict(e, p)
  /\ Store!Touch
  /\ CallEnds(r)
  /\ UNCHANGED <<registryVars, decisionVars, cacheVars, armed, rejecter, dispatched, restarts>>

(* Fault: a step whose inputs changed gets a new approval. *)
StepPrepareAnew(r, e, p, a) ==
  /\ OwnsStep(r, e)
  /\ Store!Create(e, p, a)
  /\ Register(e, "NONE", a)
  /\ CallEnds(r)
  /\ UNCHANGED <<decisionVars, cacheVars, armed, rejecter, dispatched, restarts>>

(* No approval is given and the step has none: one is created, and the step
   registered for the approve request to resume. *)
StepPrepare(r, e, p, a) ==
  /\ OwnsStep(r, e)
  /\ Alive(e) = {}
  /\ Store!Create(e, p, a)
  /\ Register(e, "NONE", a)
  /\ CallEnds(r)
  /\ UNCHANGED <<decisionVars, cacheVars, armed, rejecter, dispatched, restarts>>

(* The approval is not granted: the step is registered and reported pending. *)
StepPending(r, e, p, supplied) ==
  /\ OwnsStep(r, e)
  /\ ~Conflict(e, p)
  /\ \E a \in GoesBy(e, supplied) : ~Store!FullyApproved(a) /\ Register(e, "NONE", a)
  /\ Store!Touch
  /\ CallEnds(r)
  /\ UNCHANGED <<decisionVars, cacheVars, armed, rejecter, dispatched, restarts>>

(* Fault: a pending approval is good enough. *)
StepRunPending(r, e, p, supplied) ==
  /\ OwnsStep(r, e)
  /\ ~Conflict(e, p)
  /\ \E a \in GoesBy(e, supplied) : Register(e, "EXECUTING", a)
  /\ Store!Touch
  /\ approver' = [approver EXCEPT ![r] = [Idle EXCEPT !.pc = "cleared", !.exec = e]]
  /\ loop' = r
  /\ UNCHANGED <<decisionVars, cacheVars, armed, rejecter, dispatched, restarts>>

(* The orchestrator's execute, of a step whose approval is granted or that is
   said to need none: governance allows it on a granted approval only, and
   starts the step. *)
StepRun(r, e, p, supplied) ==
  /\ OwnsStep(r, e)
  /\ ~Conflict(e, p)
  /\ \E a \in Asked(e, supplied) \ {NoApproval} :
       Store!FullyApproved(a) /\ Register(e, "EXECUTING", a)
  /\ Store!Touch
  /\ approver' = [approver EXCEPT ![r] = [Idle EXCEPT !.pc = "cleared", !.exec = e]]
  /\ loop' = r
  /\ UNCHANGED <<decisionVars, cacheVars, armed, rejecter, dispatched, restarts>>

(* The same, and governance denies it: for its initiator or its directive, or
   for an approval it has not got. *)
StepDenied(r, e, p, supplied) ==
  /\ OwnsStep(r, e)
  /\ ~Conflict(e, p)
  /\ \E a \in Asked(e, supplied) : Register(e, "BLOCKED", a)
  /\ Store!Touch
  /\ CallEnds(r)
  /\ UNCHANGED <<decisionVars, cacheVars, armed, rejecter, dispatched, restarts>>

-----------------------------------------------------------------------------
StepInit == Init /\ steps = {}

StepNext ==
  \/ Next /\ UNCHANGED steps
  \/ \E r \in Approvers, e \in Executions, p \in Payloads :
       \/ StepConflict(r, e, p)
       \/ \E a \in Approvals : StepPrepare(r, e, p, a)
       \/ \E supplied \in issued \cup {NoApproval} :
            \/ StepPending(r, e, p, supplied) \/ StepRun(r, e, p, supplied)
            \/ StepDenied(r, e, p, supplied)

StepSpec == StepInit /\ [][StepNext]_stepVars

-----------------------------------------------------------------------------
(* "does not create a second approval" (run_template): a step never has two
   live approvals, not even for different inputs, which the store itself would
   allow. *)
OneLivePerStep ==
  \A a, b \in Approvals :
    /\ Store!Live(approvals, a) /\ Store!Live(approvals, b)
    /\ approvals[a].exec = approvals[b].exec /\ approvals[a].exec \in steps
    => a = b

(* A step's tool starts only on an approval that was granted, whether this call
   or an approve request starts it and whichever approval is named for it. *)
StepsRunOnGrants ==
  [][\A r \in Approvers :
       approver[r].pc = "cleared" /\ approver'[r].pc = "running" /\ approver[r].exec \in steps
       => LET a == registry[approver[r].exec].approval
          IN  a \in Approvals /\ approvals[a].status = "approved"]_stepVars

(* "Idempotent by (job_id, step_id): does not create a second [...] execution"
   (run_template). *)
OneExecutionPerStep == \A e \in steps : dispatched[e] <= 1
==============================================================================
