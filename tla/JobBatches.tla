------------------------------ MODULE JobBatches ------------------------------
(* Lists of pending jobs, services/job_runner.py run_pending: a call makes a
   task of each job in its list and waits for all of them; a semaphore of the
   call limits how many are executed at a time.  The runner remembers the ids
   it has seen, for a while or for good, and skips the jobs it remembers. *)
EXTENDS Integers, FiniteSets, Sequences

CONSTANTS
  Pending,         \* the list of jobs each call is given
  MaxConcurrency,
  MaxRetries,
  KeepTimes,       \* the values idempotency_ttl_seconds may have
  Forever,         \* that of None, which is no limit
  JbMaxTime        \* bound on the clock

VARIABLES
  jbNow,
  jbKeep,   \* idempotency_ttl_seconds
  jbSeen,   \* _seen_job_ids: when each was seen
  jbTask    \* the task of each job of each call

jbVars == <<jbNow, jbKeep, jbSeen, jbTask>>

JbCalls  == DOMAIN Pending
JobTasks == UNION {{c} \X DOMAIN Pending[c] : c \in JbCalls}
JobOf(e) == Pending[e[1]][e[2]]
JobIds   == {JobOf(e) : e \in JobTasks}
Never    == -1

ASSUME JobsAssumption ==
  /\ MaxConcurrency \in Nat \ {0} /\ MaxRetries \in Nat /\ JbMaxTime \in Nat
  /\ KeepTimes \subseteq (Nat \ {0}) \cup {Forever}

JbTypeOK ==
  /\ jbNow \in 0 .. JbMaxTime
  /\ jbKeep \in KeepTimes
  /\ jbSeen \in [JobIds -> 0 .. JbMaxTime \cup {Never}]
  /\ jbTask \in [JobTasks -> [at : {"absent", "ready", "waiting", "executing", "backoff",
                                    "logging", "ended"},
                              began : 0 .. JbMaxTime \cup {Never},
                              tries : 0 .. MaxRetries + 1]]

JbInit ==
  /\ jbNow = 0
  /\ jbKeep \in KeepTimes
  /\ jbSeen = [j \in JobIds |-> Never]
  /\ jbTask = [e \in JobTasks |-> [at |-> "absent", began |-> Never, tries |-> 0]]
----------------------------------------------------------------------------
Moves(e, at) == jbTask' = [jbTask EXCEPT ![e].at = at]

(* The jobs of a call that hold its semaphore, through all of their attempts. *)
PlacesTaken(c) ==
  {e \in JobTasks : e[1] = c /\ jbTask[e].at \in {"executing", "backoff", "logging"}}

HasPlace(c) == Cardinality(PlacesTaken(c)) < MaxConcurrency

(* Fault: an id is forgotten when it is as old as the limit. *)
ForgottenEarly(j) == jbKeep # Forever /\ jbSeen[j] <= jbNow - jbKeep

(* _cleanup_seen *)
Forgotten(j) == jbKeep # Forever /\ jbSeen[j] < jbNow - jbKeep

Remembered == [j \in JobIds |-> IF Forgotten(j) THEN Never ELSE jbSeen[j]]

(* run_pending: a task for each job, which begin in the order of the list. *)
JbCall(c) ==
  /\ \A e \in JobTasks : e[1] = c => jbTask[e].at = "absent"
  /\ jbTask' = [e \in JobTasks |-> IF e[1] = c THEN [jbTask[e] EXCEPT !.at = "ready"] ELSE jbTask[e]]
  /\ UNCHANGED <<jbNow, jbKeep, jbSeen>>

IsNext(e) == jbTask[e].at = "ready" /\ \A f \in JobTasks : f[1] = e[1] /\ f[2] < e[2] => jbTask[f].at # "ready"

(* _mark_seen: an id that is remembered is skipped. *)
JbSkip(e) ==
  /\ IsNext(e) /\ Remembered[JobOf(e)] # Never
  /\ jbSeen' = Remembered
  /\ Moves(e, "ended")
  /\ UNCHANGED <<jbNow, jbKeep>>

(* Otherwise it is seen from now on, also if no agent has the job's role; the
   job waits for the semaphore, in the order of arrival, or is executed. *)
JbBegin(e) ==
  LET executes == HasPlace(e[1]) /\ \A f \in JobTasks : f[1] = e[1] => jbTask[f].at # "waiting" IN
  /\ IsNext(e) /\ Remembered[JobOf(e)] = Never
  /\ jbSeen' = [Remembered EXCEPT ![JobOf(e)] = jbNow]
  /\ \/ Moves(e, "ended")
     \/ jbTask' = [jbTask EXCEPT ![e] =
                     [at    |-> IF executes THEN "executing" ELSE "waiting",
                      began |-> jbNow,
                      tries |-> IF executes THEN 1 ELSE 0]]
  /\ UNCHANGED <<jbNow, jbKeep>>

Attempts(e) == jbTask' = [jbTask EXCEPT ![e].at = "executing", ![e].tries = @ + 1]

JbAcquire(e) ==
  /\ jbTask[e].at = "waiting" /\ HasPlace(e[1])
  /\ \A f \in JobTasks : f[1] = e[1] /\ f[2] < e[2] => jbTask[f].at # "waiting"
  /\ Attempts(e)
  /\ UNCHANGED <<jbNow, jbKeep, jbSeen>>

(* The orchestrator has answered; a BLOCKED answer to an approved job is
   followed by the handoff log, whose failure is ignored. *)
JbAnswered(e) ==
  /\ jbTask[e].at = "executing"
  /\ Moves(e, "ended") \/ Moves(e, "logging")
  /\ UNCHANGED <<jbNow, jbKeep, jbSeen>>

JbLogged(e) ==
  /\ jbTask[e].at = "logging"
  /\ Moves(e, "ended")
  /\ UNCHANGED <<jbNow, jbKeep, jbSeen>>

(* Fault: the attempts are not counted. *)
JbRaisedOn(e) ==
  /\ jbTask[e].at = "executing"
  /\ jbTask' = [jbTask EXCEPT ![e].at = "backoff", ![e].tries = 0]
  /\ UNCHANGED <<jbNow, jbKeep, jbSeen>>

(* It raised: the job is tried again after a sleep, or has failed. *)
JbRaised(e) ==
  /\ jbTask[e].at = "executing"
  /\ IF jbTask[e].tries <= MaxRetries THEN Moves(e, "backoff") ELSE Moves(e, "ended")
  /\ UNCHANGED <<jbNow, jbKeep, jbSeen>>

JbRetry(e) ==
  /\ jbTask[e].at = "backoff"
  /\ Attempts(e)
  /\ UNCHANGED <<jbNow, jbKeep, jbSeen>>

(* The caller of run_pending is cancelled, and with it the tasks it awaits. *)
JbCancelled(c) ==
  /\ jbTask' = [e \in JobTasks |-> IF e[1] = c THEN [jbTask[e] EXCEPT !.at = "ended"] ELSE jbTask[e]]
  /\ \E e \in JobTasks : e[1] = c /\ jbTask[e].at \notin {"absent", "ended"}
  /\ UNCHANGED <<jbNow, jbKeep, jbSeen>>

JbTick == jbNow < JbMaxTime /\ jbNow' = jbNow + 1 /\ UNCHANGED <<jbKeep, jbSeen, jbTask>>

JobStep(e) == \/ JbSkip(e) \/ JbBegin(e) \/ JbAcquire(e)
              \/ JbAnswered(e) \/ JbLogged(e) \/ JbRaised(e) \/ JbRetry(e)

JobsNext ==
  \/ \E c \in JbCalls : JbCall(c) \/ JbCancelled(c)
  \/ \E e \in JobTasks : JobStep(e)
  \/ JbTick

JobsSpec == JbInit /\ [][JobsNext]_jbVars /\ \A e \in JobTasks : WF_jbVars(JobStep(e))
----------------------------------------------------------------------------
(* Two tasks for one job, in one call or in two that overlap, are both begun
   only if their beginnings are further apart than the id is remembered; never
   if it is kept for good, however long they wait, fail or are cancelled. *)
BegunOncePerWindow ==
  \A e, f \in JobTasks :
    e # f /\ JobOf(e) = JobOf(f) /\ jbTask[e].began # Never /\ jbTask[f].began # Never
    => /\ jbKeep # Forever
       /\ jbTask[e].began - jbTask[f].began > jbKeep \/ jbTask[f].began - jbTask[e].began > jbKeep

(* Every job of a call ends: none waits for ever for a place that a failed or
   blocked one has kept, or tries for ever. *)
JobsEnd == \A e \in JobTasks : jbTask[e].at = "ready" ~> jbTask[e].at = "ended"
============================================================================
