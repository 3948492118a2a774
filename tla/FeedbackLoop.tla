---------------------------- MODULE FeedbackLoop ----------------------------
(* The outcome feedback loop (services/outcome_feedback_loop_service.py).
   Every decision gets a row per review window when it is recorded; the
   outcome of its execution is copied into the rows; when a review is due a
   job evaluates the row, once, by filling its marker column.  The approve
   and reject requests of ai_ops_router.py schedule and synchronise; the cron
   route and the scheduled job (jobs/ofl_scheduler.py) evaluate.  Statements
   of a transaction take effect together: after one that fails PostgreSQL
   takes no other, and the commit is a rollback. *)
EXTENDS Integers, FiniteSets

CONSTANTS
  Decided, Windows,  \* a review is due Windows days after the decision
  Requests,            \* the requests that decide, approve or reject
  RequestFor,          \* what each of them is
  Jobs,                \* runs of the scheduled job
  Crons,               \* runs of POST /cron/run
  FeedbackLimit,       \* rows a run may take
  MaxDay

VARIABLES
  fbDay,
  fbRecord,   \* the decision records: when made, and the outcome so far
  fbRequest,  \* each request, and the outcome in the record it holds
  fbRows,     \* outcome_feedback_loop: the outcome column, and the marker
  fbRun,      \* the rows each run has locked: none when it does not run
  fbSynced,   \* history: the last outcome each decision's rows were given
  fbMissed,   \* history: the decisions whose reviews once failed to be scheduled
  fbTwice     \* history: the rows that were evaluated again

fbVars == <<fbDay, fbRecord, fbRequest, fbRows, fbRun, fbSynced, fbMissed, fbTwice>>

Reviews == Decided \X Windows
Runs    == Jobs \cup Crons

ASSUME FeedbackAssumption ==
  /\ Windows \subseteq Nat /\ MaxDay \in Nat
  /\ FeedbackLimit \in Nat \ {0}
  /\ RequestFor \in [Requests -> [kind : {"approve", "reject"}, decision : Decided]]
  /\ Jobs \cap Crons = {}

RowOutcomes == {"open", "ran", "failed"}

FeedbackTypeOK ==
  /\ fbDay \in 0 .. MaxDay
  /\ fbRecord \in [Decided -> [day : 0 .. MaxDay, outcome : RowOutcomes \cup {"absent"}]]
  /\ fbRequest \in [Requests -> [at : {"new", "resuming", "syncing", "scheduling", "done"},
                                 outcome : RowOutcomes]]
  /\ fbRows \in [Reviews -> [outcome : RowOutcomes \cup {"absent"}, marked : BOOLEAN]]
  /\ fbRun \in [Runs -> SUBSET Reviews]
  /\ fbSynced \in [Decided -> RowOutcomes]
  /\ fbMissed \subseteq Decided
  /\ fbTwice \subseteq Reviews

FeedbackInit ==
  /\ fbDay = 0
  /\ fbRecord  = [d \in Decided |-> [day |-> 0, outcome |-> "absent"]]
  /\ fbRequest = [q \in Requests |-> [at |-> "new", outcome |-> "open"]]
  /\ fbRows    = [k \in Reviews |-> [outcome |-> "absent", marked |-> FALSE]]
  /\ fbRun     = [w \in Runs |-> {}]
  /\ fbSynced  = [d \in Decided |-> "open"]
  /\ fbMissed  = {}
  /\ fbTwice   = {}
----------------------------------------------------------------------------
Of(q)      == RequestFor[q].decision
Locked     == UNION {fbRun[w] : w \in Runs}
LoopIsFree == \A q \in Requests : fbRequest[q].at # "syncing"

(* create_or_get_for_approval: the record there is, or a new one. *)
Recorded(d) == IF fbRecord[d].outcome = "absent" THEN [day |-> fbDay, outcome |-> "open"]
                                                 ELSE fbRecord[d]

(* Fault: a row that exists takes the outcome of the record at hand. *)
WithReviewsAnew(d, outcome) ==
  [k \in Reviews |-> IF k[1] = d THEN [fbRows[k] EXCEPT !.outcome = outcome] ELSE fbRows[k]]

(* The rows after a review has been scheduled for every window: on a
   conflict with a row that exists, nothing. *)
WithReviews(d, outcome) ==
  [k \in Reviews |-> IF k[1] = d /\ fbRows[k].outcome = "absent"
                     THEN [outcome |-> outcome, marked |-> FALSE]
                     ELSE fbRows[k]]

(* schedule_reviews_for_decision, and what its caller makes of a failure:
   nothing.  It fails when the owner has no identity, or a statement fails. *)
Schedule(d, outcome) ==
  \/ fbRows' = WithReviews(d, outcome) /\ UNCHANGED fbMissed
  \/ fbMissed' = fbMissed \cup {d} /\ UNCHANGED fbRows

Goes(q, at, outcome) == fbRequest' = [fbRequest EXCEPT ![q] = [at |-> at, outcome |-> outcome]]

(* approve records the decision, schedules its reviews with that record, and
   awaits the execution. *)
FbApprove(q) ==
  LET record == Recorded(Of(q)) IN
  /\ LoopIsFree
  /\ fbRequest[q].at = "new" /\ RequestFor[q].kind = "approve"
  /\ fbRecord' = [fbRecord EXCEPT ![Of(q)] = record]
  /\ Schedule(Of(q), record.outcome)
  /\ Goes(q, "resuming", record.outcome)
  /\ UNCHANGED <<fbDay, fbRun, fbSynced, fbTwice>>

(* reject does so in a thread: others may act between its two steps. *)
FbReject(q) ==
  LET record == Recorded(Of(q)) IN
  /\ fbRequest[q].at = "new" /\ RequestFor[q].kind = "reject"
  /\ fbRecord' = [fbRecord EXCEPT ![Of(q)] = record]
  /\ Goes(q, "scheduling", record.outcome)
  /\ UNCHANGED <<fbDay, fbRows, fbRun, fbSynced, fbMissed, fbTwice>>

FbRejectSchedules(q) ==
  /\ fbRequest[q].at = "scheduling"
  /\ Schedule(Of(q), fbRequest[q].outcome)
  /\ Goes(q, "done", fbRequest[q].outcome)
  /\ UNCHANGED <<fbDay, fbRecord, fbRun, fbSynced, fbTwice>>

(* The execution ends: its outcome is put into the record; or resume raised. *)
FbResumed(q) ==
  /\ LoopIsFree
  /\ fbRequest[q].at = "resuming"
  /\ \/ \E outcome \in {"ran", "failed"} :
           /\ fbRecord' = [fbRecord EXCEPT ![Of(q)].outcome = outcome]
           /\ Goes(q, "syncing", outcome)
     \/ /\ Goes(q, "done", fbRequest[q].outcome)
        /\ UNCHANGED fbRecord
  /\ UNCHANGED <<fbDay, fbRows, fbRun, fbSynced, fbMissed, fbTwice>>

(* update_execution_outcome_for_decision waits for the rows a run has locked
   and, with the whole event loop, for its database; it may fail. *)
FbSync(q) ==
  LET d == Of(q)  outcome == fbRequest[q].outcome IN
  /\ fbRequest[q].at = "syncing"
  /\ \/ /\ \A k \in Locked : k[1] # d
        /\ fbRows' = [k \in Reviews |->
                        IF k[1] = d /\ fbRows[k].outcome # "absent"
                        THEN [fbRows[k] EXCEPT !.outcome = outcome] ELSE fbRows[k]]
        /\ fbSynced' = [fbSynced EXCEPT ![d] = outcome]
     \/ UNCHANGED <<fbRows, fbSynced>>
  /\ Goes(q, "done", outcome)
  /\ UNCHANGED <<fbDay, fbRecord, fbRun, fbMissed, fbTwice>>
----------------------------------------------------------------------------
(* The scheduled job runs under two advisory locks, and leaves at once if
   another run holds them; the cron service lets one run in at a time. *)
Alone(w) == \A v \in Runs : (v \in Jobs <=> w \in Jobs) => fbRun[v] = {}

ReviewAt(k) == fbRecord[k[1]].day + k[2]
Waits(k)    == fbRows[k].outcome # "absent" /\ ~fbRows[k].marked
Due(k)      == Waits(k) /\ ReviewAt(k) <= fbDay

(* The earliest of the rows, up to the limit. *)
Batches(rows) ==
  {b \in SUBSET rows : /\ Cardinality(b) = IF Cardinality(rows) < FeedbackLimit
                                           THEN Cardinality(rows) ELSE FeedbackLimit
                       /\ \A k \in rows \ b, j \in b : ReviewAt(j) <= ReviewAt(k)}

(* Fault: the rows are selected without FOR UPDATE SKIP LOCKED. *)
FbSelectUnlocked(w) ==
  /\ Alone(w)
  /\ \E b \in Batches({k \in Reviews : Due(k)}) : b # {} /\ fbRun' = [fbRun EXCEPT ![w] = b]
  /\ UNCHANGED <<fbDay, fbRecord, fbRequest, fbRows, fbSynced, fbMissed, fbTwice>>

(* Fault: only the rows that become due today are selected. *)
FbSelectToday(w) ==
  /\ Alone(w)
  /\ \E b \in Batches({k \in Reviews : Waits(k) /\ ReviewAt(k) = fbDay} \ Locked) :
        b # {} /\ fbRun' = [fbRun EXCEPT ![w] = b]
  /\ UNCHANGED <<fbDay, fbRecord, fbRequest, fbRows, fbSynced, fbMissed, fbTwice>>

(* A run takes the due rows that no other run has locked.  One that finds
   none ends without having changed anything. *)
FbSelect(w) ==
  /\ Alone(w)
  /\ \E b \in Batches({k \in Reviews : Due(k)} \ Locked) :
        b # {} /\ fbRun' = [fbRun EXCEPT ![w] = b]
  /\ UNCHANGED <<fbDay, fbRecord, fbRequest, fbRows, fbSynced, fbMissed, fbTwice>>

(* The rows are updated one after the other, and committed together. *)
FbCommit(w) ==
  /\ fbRun[w] # {}
  /\ fbRows' = [k \in Reviews |-> IF k \in fbRun[w] THEN [fbRows[k] EXCEPT !.marked = TRUE]
                                                     ELSE fbRows[k]]
  /\ fbTwice' = fbTwice \cup {k \in fbRun[w] : fbRows[k].marked}
  /\ fbRun' = [fbRun EXCEPT ![w] = {}]
  /\ UNCHANGED <<fbDay, fbRecord, fbRequest, fbSynced, fbMissed>>

(* The snapshot cannot be built, an update fails and with it the rest of the
   transaction, or the process dies: the locks go with its connection. *)
FbRunFails(w) ==
  /\ fbRun[w] # {}
  /\ fbRun' = [fbRun EXCEPT ![w] = {}]
  /\ UNCHANGED <<fbDay, fbRecord, fbRequest, fbRows, fbSynced, fbMissed, fbTwice>>

FbDayPasses ==
  /\ fbDay < MaxDay
  /\ fbDay' = fbDay + 1
  /\ UNCHANGED <<fbRecord, fbRequest, fbRows, fbRun, fbSynced, fbMissed, fbTwice>>

FeedbackNext ==
  \/ \E q \in Requests : \/ FbApprove(q) \/ FbReject(q) \/ FbRejectSchedules(q)
                         \/ FbResumed(q) \/ FbSync(q)
  \/ \E w \in Runs : FbSelect(w) \/ FbCommit(w) \/ FbRunFails(w)
  \/ FbDayPasses

(* The job is scheduled every 15 minutes (render.yaml), and no run fails
   for ever: its failures are those of a network and of other processes. *)
FbJobStarts == \E w \in Jobs : FbSelect(w)

FeedbackFairness == /\ WF_fbVars(FbJobStarts)
                    /\ \A w \in Runs : SF_fbVars(FbCommit(w))

FeedbackSpec == FeedbackInit /\ [][FeedbackNext]_fbVars /\ FeedbackFairness
----------------------------------------------------------------------------
(* A review is evaluated at most once, with runs of the cron route and of the
   job that overlap, fail and start again. *)
EvaluatedOnce == fbTwice = {}

(* The rows of a decision show the outcome that was last written to them,
   also when a rejecting thread or a second approver schedules the decision
   again with the record it read before; unless its scheduling once failed. *)
RowsFollowTheRecord ==
  \A k \in Reviews :
     /\ fbRows[k].outcome # "absent"
     /\ fbSynced[k[1]] # "open"
     /\ k[1] \notin fbMissed
     => fbRows[k].outcome = fbSynced[k[1]]

(* A review that is due is evaluated, whatever was due before it. *)
DueIsEvaluated ==
  \A k \in Reviews : Due(k) ~> ~Waits(k)
============================================================================
