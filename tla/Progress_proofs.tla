-------------------------- MODULE Progress_proofs --------------------------
(* Proofs about the parts in which something must come about, one section for
   each, and about the module that instantiates them.  The steps of job
   templates have a module of their own. *)
EXTENDS MCProgress, SequenceTheorems, TLAPS

----------------------------------------------------------------------------
(* FeedbackLoop, for any decisions, windows, requests, runs and limit.

   The locks keep the runs apart, whatever advisory locks they hold: rows that
   a run has locked are its own and not evaluated yet (LocksAreApart).  And a
   decision whose outcome has been written has all its rows, unless they could
   not be scheduled (RowsAreThere), so that a late schedule with an older
   record writes none. *)

LocksAreApart ==
  /\ \A w \in Runs : \A k \in fbRun[w] : fbRows[k].outcome # "absent" /\ ~fbRows[k].marked
  /\ \A v, w \in Runs : v # w => fbRun[v] \cap fbRun[w] = {}

Scheduled(d) == \A k \in Reviews : k[1] = d => fbRows[k].outcome # "absent"

RowsAreThere ==
  /\ \A q \in Requests : fbRequest[q].at \in {"resuming", "syncing"}
                         => Of(q) \in fbMissed \/ Scheduled(Of(q))
  /\ \A d \in Decided : fbSynced[d] # "open" => d \in fbMissed \/ Scheduled(d)

FInv == /\ FeedbackTypeOK
        /\ LocksAreApart /\ EvaluatedOnce
        /\ RowsAreThere /\ RowsFollowTheRecord

Row    == [outcome : RowOutcomes \cup {"absent"}, marked : BOOLEAN]
Asking == [at : {"new", "resuming", "syncing", "scheduling", "done"}, outcome : RowOutcomes]

(* A request decides one of the decisions. *)
LEMMA OfType == ASSUME NEW q \in Requests PROVE Of(q) \in Decided
BY FeedbackAssumption DEF Of

(* The record a request reads or makes is not absent. *)
LEMMA RecordedType ==
  ASSUME FeedbackTypeOK, NEW d \in Decided
  PROVE  /\ Recorded(d) \in [day : 0 .. MaxDay, outcome : RowOutcomes \cup {"absent"}]
         /\ Recorded(d).outcome \in RowOutcomes
BY DEF FeedbackTypeOK, Recorded, RowOutcomes

(* A request that goes on keeps its type. *)
LEMMA GoesType ==
  ASSUME FeedbackTypeOK, NEW q \in Requests, NEW outcome \in RowOutcomes,
         NEW at \in {"resuming", "syncing", "scheduling", "done"}, Goes(q, at, outcome)
  PROVE  /\ fbRequest' \in [Requests -> Asking]
         /\ fbRequest'[q].at = at
         /\ \A p \in Requests : p # q => fbRequest'[p] = fbRequest[p]
BY DEF FeedbackTypeOK, Goes, Asking

(* Scheduling adds what is missing, or notes that it failed. *)
LEMMA ScheduleKeeps ==
  ASSUME FInv, NEW d \in Decided, NEW outcome \in RowOutcomes, Schedule(d, outcome)
  PROVE  /\ fbRows' \in [Reviews -> Row] /\ fbMissed' \subseteq Decided
         /\ fbMissed \subseteq fbMissed'
         /\ d \in fbMissed' \/ \A k \in Reviews : k[1] = d => fbRows'[k].outcome # "absent"
         /\ \A k \in Reviews : fbRows[k].outcome # "absent" => fbRows'[k] = fbRows[k]
         /\ \A k \in Reviews : k[1] # d => fbRows'[k] = fbRows[k]
<1>1. [outcome |-> outcome, marked |-> FALSE] \in Row /\ outcome # "absent"
  BY DEF Row, RowOutcomes
<1>2. fbRows \in [Reviews -> Row] /\ fbMissed \subseteq Decided
  BY DEF FInv, FeedbackTypeOK, Row
<1>3. CASE fbRows' = WithReviews(d, outcome) /\ UNCHANGED fbMissed
  BY <1>1, <1>2, <1>3 DEF WithReviews
<1>4. CASE fbMissed' = fbMissed \cup {d} /\ UNCHANGED fbRows
  BY <1>2, <1>4
<1>. QED
  BY <1>3, <1>4 DEF Schedule

(* A step that only adds rows keeps the locks apart and the rows as they are,
   if no decision that has been synchronised lacks a row. *)
LEMMA SchedulingKeeps ==
  ASSUME FInv, NEW d \in Decided, NEW outcome \in RowOutcomes, Schedule(d, outcome),
         UNCHANGED <<fbRun, fbSynced, fbTwice>>
  PROVE  /\ LocksAreApart' /\ EvaluatedOnce' /\ RowsFollowTheRecord'
         /\ \A e \in Decided : e \in fbMissed \/ Scheduled(e) => e \in fbMissed' \/ Scheduled(e)'
<1>1. /\ fbMissed \subseteq fbMissed'
      /\ \A k \in Reviews : fbRows[k].outcome # "absent" => fbRows'[k] = fbRows[k]
  BY ScheduleKeeps
<1>2. \A w \in Runs : fbRun[w] \subseteq Reviews
  BY DEF FInv, FeedbackTypeOK
<1>3. LocksAreApart'
  BY <1>1, <1>2 DEF FInv, LocksAreApart
<1>4. RowsFollowTheRecord'
  <2>. SUFFICES ASSUME NEW k \in Reviews, fbRows'[k].outcome # "absent",
                       fbSynced[k[1]] # "open", k[1] \notin fbMissed'
                PROVE  fbRows'[k].outcome = fbSynced[k[1]]
    BY DEF RowsFollowTheRecord
  <2>1. k[1] \in Decided /\ k[1] \notin fbMissed
    BY <1>1 DEF Reviews
  <2>2. fbRows[k].outcome # "absent"
    BY <2>1 DEF FInv, RowsAreThere, Scheduled
  <2>. QED
    BY <1>1, <2>1, <2>2 DEF FInv, RowsFollowTheRecord
<1>5. \A e \in Decided : e \in fbMissed \/ Scheduled(e) => e \in fbMissed' \/ Scheduled(e)'
  BY <1>1 DEF Scheduled
<1>. QED
  BY <1>3, <1>4, <1>5 DEF FInv, EvaluatedOnce

(* At first nothing is recorded, scheduled or locked. *)
LEMMA InitFInv == FeedbackInit => FInv
<1>. SUFFICES ASSUME FeedbackInit PROVE FInv
  OBVIOUS
<1>1. FeedbackTypeOK
  BY FeedbackAssumption DEF FeedbackInit, FeedbackTypeOK, RowOutcomes
<1>2. LocksAreApart /\ EvaluatedOnce
  BY DEF FeedbackInit, LocksAreApart, EvaluatedOnce
<1>3. RowsAreThere
  BY DEF FeedbackInit, RowsAreThere
<1>4. RowsFollowTheRecord
  BY DEF FeedbackInit, RowsFollowTheRecord
<1>. QED
  BY <1>1, <1>2, <1>3, <1>4 DEF FInv

(* A decision is recorded and scheduled, by an approval or after a rejection. *)
LEMMA DecideFInv ==
  ASSUME FInv, NEW q \in Requests, FbApprove(q) \/ FbReject(q) \/ FbRejectSchedules(q)
  PROVE  FInv'
<1>. USE OfType
<1>1. CASE FbApprove(q)
  <2>. DEFINE record == Recorded(Of(q))
  <2>1. /\ fbRecord' = [fbRecord EXCEPT ![Of(q)] = record]
        /\ Schedule(Of(q), record.outcome) /\ Goes(q, "resuming", record.outcome)
        /\ UNCHANGED <<fbDay, fbRun, fbSynced, fbTwice>>
    BY <1>1 DEF FbApprove
  <2>2. /\ record \in [day : 0 .. MaxDay, outcome : RowOutcomes \cup {"absent"}]
        /\ record.outcome \in RowOutcomes
    BY RecordedType DEF FInv
  <2>3. /\ fbRequest' \in [Requests -> Asking]
        /\ \A p \in Requests : p # q => fbRequest'[p] = fbRequest[p]
    BY <2>1, <2>2, GoesType DEF FInv
  <2>4. /\ fbRows' \in [Reviews -> Row] /\ fbMissed' \subseteq Decided
        /\ Of(q) \in fbMissed' \/ Scheduled(Of(q))'
    BY <2>1, <2>2, ScheduleKeeps DEF Scheduled
  <2>5. /\ LocksAreApart' /\ EvaluatedOnce' /\ RowsFollowTheRecord'
        /\ \A e \in Decided : e \in fbMissed \/ Scheduled(e) => e \in fbMissed' \/ Scheduled(e)'
    BY <2>1, <2>2, SchedulingKeeps
  <2>6. RowsAreThere'
    BY <2>1, <2>3, <2>4, <2>5 DEF FInv, RowsAreThere, Of
  <2>7. FeedbackTypeOK'
    BY <2>1, <2>2, <2>3, <2>4 DEF FInv, FeedbackTypeOK, Row, Asking
  <2>. QED
    BY <2>5, <2>6, <2>7 DEF FInv
<1>2. CASE FbReject(q)
  <2>. DEFINE record == Recorded(Of(q))
  <2>1. /\ fbRecord' = [fbRecord EXCEPT ![Of(q)] = record] /\ Goes(q, "scheduling", record.outcome)
        /\ UNCHANGED <<fbDay, fbRows, fbRun, fbSynced, fbMissed, fbTwice>>
    BY <1>2 DEF FbReject
  <2>2. /\ record \in [day : 0 .. MaxDay, outcome : RowOutcomes \cup {"absent"}]
        /\ record.outcome \in RowOutcomes
    BY RecordedType DEF FInv
  <2>3. /\ fbRequest' \in [Requests -> Asking] /\ fbRequest'[q].at = "scheduling"
        /\ \A p \in Requests : p # q => fbRequest'[p] = fbRequest[p]
    BY <2>1, <2>2, GoesType DEF FInv
  <2>4. RowsAreThere'
    BY <2>1, <2>3 DEF FInv, RowsAreThere, Scheduled, Of
  <2>5. FeedbackTypeOK'
    BY <2>1, <2>2, <2>3 DEF FInv, FeedbackTypeOK, Asking
  <2>. QED
    BY <2>1, <2>4, <2>5 DEF FInv, LocksAreApart, EvaluatedOnce, RowsFollowTheRecord
<1>3. CASE FbRejectSchedules(q)
  <2>. DEFINE outcome == fbRequest[q].outcome
  <2>1. /\ Schedule(Of(q), outcome) /\ Goes(q, "done", outcome)
        /\ UNCHANGED <<fbDay, fbRecord, fbRun, fbSynced, fbTwice>>
    BY <1>3 DEF FbRejectSchedules
  <2>2. outcome \in RowOutcomes
    BY DEF FInv, FeedbackTypeOK
  <2>3. /\ fbRequest' \in [Requests -> Asking] /\ fbRequest'[q].at = "done"
        /\ \A p \in Requests : p # q => fbRequest'[p] = fbRequest[p]
    BY <2>1, <2>2, GoesType DEF FInv
  <2>4. fbRows' \in [Reviews -> Row] /\ fbMissed' \subseteq Decided
    BY <2>1, <2>2, ScheduleKeeps
  <2>5. /\ LocksAreApart' /\ EvaluatedOnce' /\ RowsFollowTheRecord'
        /\ \A e \in Decided : e \in fbMissed \/ Scheduled(e) => e \in fbMissed' \/ Scheduled(e)'
    BY <2>1, <2>2, SchedulingKeeps
  <2>6. RowsAreThere'
    BY <2>1, <2>3, <2>5 DEF FInv, RowsAreThere, Of
  <2>7. FeedbackTypeOK'
    BY <2>1, <2>3, <2>4 DEF FInv, FeedbackTypeOK, Row, Asking
  <2>. QED
    BY <2>5, <2>6, <2>7 DEF FInv
<1>. QED
  BY <1>1, <1>2, <1>3

(* The execution ends, and its outcome is written to the rows. *)
LEMMA OutcomeFInv ==
  ASSUME FInv, NEW q \in Requests, FbResumed(q) \/ FbSync(q)
  PROVE  FInv'
<1>. USE OfType
<1>1. CASE FbResumed(q)
  <2>1. /\ fbRequest[q].at = "resuming"
        /\ UNCHANGED <<fbDay, fbRows, fbRun, fbSynced, fbMissed, fbTwice>>
    BY <1>1 DEF FbResumed
  <2>2. PICK outcome \in RowOutcomes, at \in {"syncing", "done"} :
           /\ Goes(q, at, outcome)
           /\ fbRecord' = fbRecord \/ fbRecord' = [fbRecord EXCEPT ![Of(q)].outcome = outcome]
    BY <1>1 DEF FbResumed, FInv, FeedbackTypeOK, RowOutcomes
  <2>3. /\ fbRequest' \in [Requests -> Asking]
        /\ \A p \in Requests : p # q => fbRequest'[p] = fbRequest[p]
    BY <2>2, GoesType DEF FInv
  <2>4. FeedbackTypeOK'
    BY <2>1, <2>2, <2>3 DEF FInv, FeedbackTypeOK, Asking
  <2>5. RowsAreThere'
    BY <2>1, <2>3 DEF FInv, RowsAreThere, Scheduled, Of
  <2>. QED
    BY <2>1, <2>4, <2>5 DEF FInv, LocksAreApart, EvaluatedOnce, RowsFollowTheRecord
<1>2. CASE FbSync(q)
  <2>. DEFINE d == Of(q)
              outcome == fbRequest[q].outcome
  <2>1. /\ fbRequest[q].at = "syncing" /\ Goes(q, "done", outcome)
        /\ UNCHANGED <<fbDay, fbRecord, fbRun, fbMissed, fbTwice>>
    BY <1>2 DEF FbSync
  <2>2. outcome \in RowOutcomes /\ outcome # "absent"
    BY DEF FInv, FeedbackTypeOK, RowOutcomes
  <2>3. /\ fbRequest' \in [Requests -> Asking] /\ fbRequest'[q].at = "done"
        /\ \A p \in Requests : p # q => fbRequest'[p] = fbRequest[p]
    BY <2>1, <2>2, GoesType DEF FInv
  <2>4. CASE UNCHANGED <<fbRows, fbSynced>>
    <3>1. FeedbackTypeOK'
      BY <2>1, <2>3, <2>4 DEF FInv, FeedbackTypeOK, Asking
    <3>2. RowsAreThere'
      BY <2>1, <2>3, <2>4 DEF FInv, RowsAreThere, Scheduled, Of
    <3>. QED
      BY <2>1, <2>4, <3>1, <3>2 DEF FInv, LocksAreApart, EvaluatedOnce, RowsFollowTheRecord
  <2>5. CASE /\ fbRows' = [k \in Reviews |->
                             IF k[1] = d /\ fbRows[k].outcome # "absent"
                             THEN [fbRows[k] EXCEPT !.outcome = outcome] ELSE fbRows[k]]
             /\ fbSynced' = [fbSynced EXCEPT ![d] = outcome]
    <3>1. fbRows \in [Reviews -> Row]
      BY DEF FInv, FeedbackTypeOK, Row
    <3>2. /\ fbRows' \in [Reviews -> Row]
          /\ fbSynced' \in [Decided -> RowOutcomes]
      BY <2>2, <2>5, <3>1 DEF FInv, FeedbackTypeOK, Row
    <3>3. \A k \in Reviews : /\ fbRows'[k].marked = fbRows[k].marked
                             /\ fbRows'[k].outcome = "absent" <=> fbRows[k].outcome = "absent"
                             /\ k[1] # d => fbRows'[k] = fbRows[k]
      BY <2>2, <2>5, <3>1 DEF Row
    <3>4. \A k \in Reviews : k[1] = d /\ fbRows'[k].outcome # "absent" => fbRows'[k].outcome = outcome
      BY <2>2, <2>5, <3>1 DEF Row
    <3>5. FeedbackTypeOK'
      BY <2>1, <2>3, <3>2 DEF FInv, FeedbackTypeOK, Row, Asking
    <3>6. LocksAreApart'
      BY <2>1, <3>3 DEF FInv, FeedbackTypeOK, LocksAreApart
    <3>7. \A e \in Decided : Scheduled(e)' <=> Scheduled(e)
      BY <3>3 DEF Scheduled
    <3>8. \A e \in Decided : e # d => fbSynced'[e] = fbSynced[e]
      BY <2>5 DEF FInv, FeedbackTypeOK
    <3>9. RowsAreThere'
      BY <2>1, <2>3, <3>7, <3>8 DEF FInv, RowsAreThere, Of
    <3>10. fbSynced'[d] = outcome
      BY <2>5 DEF FInv, FeedbackTypeOK
    <3>11. RowsFollowTheRecord'
      BY <2>1, <3>3, <3>4, <3>8, <3>10 DEF FInv, RowsFollowTheRecord, Reviews
    <3>. QED
      BY <2>1, <3>5, <3>6, <3>9, <3>11 DEF FInv, EvaluatedOnce
  <2>. QED
    BY <1>2, <2>4, <2>5 DEF FbSync
<1>. QED
  BY <1>1, <1>2

(* A run takes rows that are due and locked by nobody, and evaluates them. *)
LEMMA RunFInv ==
  ASSUME FInv, NEW w \in Runs, FbSelect(w) \/ FbCommit(w) \/ FbRunFails(w)
  PROVE  FInv'
<1>1. CASE FbSelect(w)
  <2>1. PICK b \in Batches({k \in Reviews : Due(k)} \ Locked) : fbRun' = [fbRun EXCEPT ![w] = b]
    BY <1>1 DEF FbSelect
  <2>2. UNCHANGED <<fbDay, fbRecord, fbRequest, fbRows, fbSynced, fbMissed, fbTwice>>
    BY <1>1 DEF FbSelect
  <2>3. b \subseteq {k \in Reviews : Due(k)} \ Locked
    BY DEF Batches
  <2>4. \A k \in b : k \in Reviews /\ fbRows[k].outcome # "absent" /\ ~fbRows[k].marked
    BY <2>3 DEF Due, Waits
  <2>5. \A v \in Runs : b \cap fbRun[v] = {}
    BY <2>3 DEF Locked
  <2>6. \A v \in Runs : fbRun'[v] = IF v = w THEN b ELSE fbRun[v]
    BY <2>1 DEF FInv, FeedbackTypeOK
  <2>7. LocksAreApart'
    BY <2>2, <2>4, <2>5, <2>6 DEF FInv, LocksAreApart
  <2>8. FeedbackTypeOK'
    BY <2>1, <2>2, <2>4 DEF FInv, FeedbackTypeOK
  <2>. QED
    BY <2>2, <2>7, <2>8 DEF FInv, EvaluatedOnce, RowsAreThere, Scheduled, RowsFollowTheRecord, Of
<1>2. CASE FbCommit(w)
  <2>1. /\ fbRows' = [k \in Reviews |-> IF k \in fbRun[w] THEN [fbRows[k] EXCEPT !.marked = TRUE]
                                                          ELSE fbRows[k]]
        /\ fbTwice' = fbTwice \cup {k \in fbRun[w] : fbRows[k].marked}
        /\ fbRun' = [fbRun EXCEPT ![w] = {}]
        /\ UNCHANGED <<fbDay, fbRecord, fbRequest, fbSynced, fbMissed>>
    BY <1>2 DEF FbCommit
  <2>2. EvaluatedOnce' /\ fbTwice' \subseteq Reviews
    BY <2>1 DEF FInv, EvaluatedOnce, LocksAreApart
  <2>3. fbRows \in [Reviews -> Row]
    BY DEF FInv, FeedbackTypeOK, Row
  <2>4. /\ fbRows' \in [Reviews -> Row]
        /\ \A k \in Reviews : fbRows'[k].outcome = fbRows[k].outcome
        /\ \A k \in Reviews : k \notin fbRun[w] => fbRows'[k] = fbRows[k]
    BY <2>1, <2>3 DEF Row
  <2>5. \A v \in Runs : fbRun'[v] = IF v = w THEN {} ELSE fbRun[v]
    BY <2>1 DEF FInv, FeedbackTypeOK
  <2>6. FeedbackTypeOK'
    BY <2>1, <2>2, <2>4 DEF FInv, FeedbackTypeOK, Row
  <2>7. \A v \in Runs : v # w => \A k \in fbRun[v] : fbRows'[k] = fbRows[k]
    BY <2>4 DEF FInv, FeedbackTypeOK, LocksAreApart
  <2>8. LocksAreApart'
    BY <2>5, <2>7 DEF FInv, LocksAreApart
  <2>9. RowsAreThere' /\ RowsFollowTheRecord'
    BY <2>1, <2>4 DEF FInv, RowsAreThere, Scheduled, RowsFollowTheRecord, Of
  <2>. QED
    BY <2>2, <2>6, <2>8, <2>9 DEF FInv
<1>3. CASE FbRunFails(w)
  <2>1. /\ fbRun' = [fbRun EXCEPT ![w] = {}]
        /\ UNCHANGED <<fbDay, fbRecord, fbRequest, fbRows, fbSynced, fbMissed, fbTwice>>
    BY <1>3 DEF FbRunFails
  <2>2. \A v \in Runs : fbRun'[v] = IF v = w THEN {} ELSE fbRun[v]
    BY <2>1 DEF FInv, FeedbackTypeOK
  <2>3. LocksAreApart' /\ FeedbackTypeOK'
    BY <2>1, <2>2 DEF FInv, LocksAreApart, FeedbackTypeOK
  <2>. QED
    BY <2>1, <2>3 DEF FInv, EvaluatedOnce, RowsAreThere, Scheduled, RowsFollowTheRecord, Of
<1>. QED
  BY <1>1, <1>2, <1>3

(* Each step keeps the invariant. *)
LEMMA NextFInv == ASSUME FInv, [FeedbackNext]_fbVars PROVE FInv'
<1>1. CASE FbDayPasses
  <2>1. FeedbackTypeOK'
    BY <1>1, FeedbackAssumption DEF FbDayPasses, FInv, FeedbackTypeOK
  <2>. QED
    BY <1>1, <2>1 DEF FbDayPasses, FInv, LocksAreApart, EvaluatedOnce, RowsAreThere, Scheduled,
                      RowsFollowTheRecord, Of
<1>2. CASE UNCHANGED fbVars
  BY <1>2 DEF fbVars, FInv, FeedbackTypeOK, LocksAreApart, EvaluatedOnce, RowsAreThere, Scheduled,
              RowsFollowTheRecord, Of
<1>. QED
  BY <1>1, <1>2, DecideFInv, OutcomeFInv, RunFInv DEF FeedbackNext

(* The state keeps its types. *)
THEOREM FeedbackTypeCorrect == FeedbackSpec => []FeedbackTypeOK
<1>1. FInv => FeedbackTypeOK
  BY DEF FInv
<1>. QED
  BY <1>1, InitFInv, NextFInv, PTL DEF FeedbackSpec

(* No review is evaluated twice, however the runs overlap and fail. *)
THEOREM ReviewedOnce == FeedbackSpec => []EvaluatedOnce
<1>1. FInv => EvaluatedOnce
  BY DEF FInv
<1>. QED
  BY <1>1, InitFInv, NextFInv, PTL DEF FeedbackSpec

(* The rows show the outcome last written, unless scheduling once failed. *)
THEOREM RowsKeepUp == FeedbackSpec => []RowsFollowTheRecord
<1>1. FInv => RowsFollowTheRecord
  BY DEF FInv
<1>. QED
  BY <1>1, InitFInv, NextFInv, PTL DEF FeedbackSpec

----------------------------------------------------------------------------
(* JobBatches, for any lists of jobs, number of workers, retries, retention
   and clock bound.

   Who has begun a job has left a mark of it: the job was seen then or later,
   or so long ago that it is forgotten (SeenSince).  A task that begins finds
   no mark, so whoever began the same job did so before the window. *)

(* Who has begun was seen then or later, or so long ago that it is forgotten. *)
SeenSince ==
  \A e \in JobTasks : jbTask[e].began # Never =>
    \/ jbSeen[JobOf(e)] >= jbTask[e].began
    \/ jbKeep # Forever /\ jbTask[e].began < jbNow - jbKeep

TaskIsSo ==
  \A e \in JobTasks :
    /\ jbTask[e].at \in {"absent", "ready"} => jbTask[e].began = Never
    /\ jbTask[e].began <= jbNow
    /\ jbTask[e].at = "waiting" => jbTask[e].tries = 0
    /\ jbTask[e].at = "backoff" => jbTask[e].tries <= MaxRetries

JInv == JbTypeOK /\ TaskIsSo /\ SeenSince /\ BegunOncePerWindow

Task == [at : {"absent", "ready", "waiting", "executing", "backoff", "logging", "ended"},
         began : 0 .. JbMaxTime \cup {Never}, tries : 0 .. MaxRetries + 1]

(* The limit is a number unless it is no limit. *)
LEMMA KeepIsNumber ==
  ASSUME JbTypeOK
  PROVE  jbKeep # Forever => jbKeep \in Nat \ {0}
  BY JobsAssumption DEF JbTypeOK

(* What is forgotten is older than the limit. *)
LEMMA RememberedIs ==
  ASSUME JbTypeOK, NEW j \in JobIds
  PROVE  /\ Remembered[j] \in 0 .. JbMaxTime \cup {Never}
         /\ \/ Remembered[j] = jbSeen[j]
            \/ /\ Remembered[j] = Never /\ jbKeep # Forever
               /\ jbSeen[j] < jbNow - jbKeep
  BY DEF Remembered, Forgotten, JbTypeOK, Never

(* A task whose beginning is left alone, while ids are seen or forgotten. *)
LEMMA SeenStays ==
  ASSUME JInv, NEW e \in JobTasks, jbTask[e].began # Never,
         jbTask'[e].began = jbTask[e].began, UNCHANGED <<jbNow, jbKeep>>,
         \/ jbSeen'[JobOf(e)] = Remembered[JobOf(e)]
         \/ jbSeen'[JobOf(e)] = jbNow
         \/ jbSeen'[JobOf(e)] = jbSeen[JobOf(e)]
  PROVE  \/ jbSeen'[JobOf(e)] >= jbTask'[e].began
         \/ jbKeep' # Forever /\ jbTask'[e].began < jbNow' - jbKeep'
<1>1. /\ JobOf(e) \in JobIds /\ jbTask[e].began \in 0 .. JbMaxTime
      /\ jbSeen[JobOf(e)] \in 0 .. JbMaxTime \cup {Never}
      /\ jbNow \in 0 .. JbMaxTime /\ jbTask[e].began <= jbNow
  BY DEF JInv, JbTypeOK, JobIds, TaskIsSo
<1>2. \/ jbSeen[JobOf(e)] >= jbTask[e].began
      \/ jbKeep # Forever /\ jbTask[e].began < jbNow - jbKeep
  BY DEF JInv, SeenSince
<1>. QED
  BY <1>1, <1>2, RememberedIs, KeepIsNumber, JobsAssumption DEF JInv, Never

(* A step that leaves the beginnings alone. *)
LEMMA BeginsNothing ==
  ASSUME JInv, jbTask' \in [JobTasks -> Task],
         \A e \in JobTasks :
           /\ jbTask'[e].began = jbTask[e].began
           /\ jbTask'[e].at \in {"absent", "ready"} => jbTask[e].at \in {"absent", "ready"}
           /\ jbTask'[e].at = "waiting" => jbTask'[e].tries = 0
           /\ jbTask'[e].at = "backoff" => jbTask'[e].tries <= MaxRetries,
         UNCHANGED <<jbNow, jbKeep>>, jbSeen' = jbSeen \/ jbSeen' = Remembered
  PROVE  JInv'
<1>1. JbTypeOK'
  BY RememberedIs DEF JInv, JbTypeOK, Task, Remembered
<1>2. TaskIsSo'
  BY DEF JInv, TaskIsSo
<1>3. SeenSince'
  BY SeenStays DEF SeenSince
<1>4. BegunOncePerWindow'
  BY DEF JInv, BegunOncePerWindow
<1>. QED
  BY <1>1, <1>2, <1>3, <1>4 DEF JInv

(* The clock. *)
LEMMA TickJInv ==
  ASSUME JInv, JbTick
  PROVE  JInv'
<1>1. JbTypeOK' /\ jbNow \in Nat /\ jbNow' = jbNow + 1
  BY JobsAssumption DEF JInv, JbTypeOK, JbTick
<1>2. \A e \in JobTasks : jbTask[e].began \in 0 .. JbMaxTime \cup {Never}
  BY DEF JInv, JbTypeOK
<1>3. TaskIsSo'
  BY <1>1, <1>2, JobsAssumption DEF JInv, TaskIsSo, JbTick, Never
<1>4. SeenSince'
  BY <1>1, <1>2, KeepIsNumber, JobsAssumption DEF JInv, SeenSince, JbTick, Never
<1>5. BegunOncePerWindow'
  BY DEF JInv, BegunOncePerWindow, JbTick
<1>. QED
  BY <1>1, <1>3, <1>4, <1>5 DEF JInv

(* A job begins: whoever has begun for the same job is forgotten by now. *)
LEMMA BeginJInv ==
  ASSUME JInv, NEW e \in JobTasks, JbBegin(e)
  PROVE  JInv'
<1>1. /\ jbTask[e].at = "ready" /\ Remembered[JobOf(e)] = Never
      /\ jbSeen' = [Remembered EXCEPT ![JobOf(e)] = jbNow] /\ UNCHANGED <<jbNow, jbKeep>>
      /\ JobOf(e) \in JobIds
  BY DEF JbBegin, IsNext, JobIds
<1>2. /\ jbSeen'[JobOf(e)] = jbNow
      /\ \A j \in JobIds \ {JobOf(e)} : jbSeen'[j] = Remembered[j]
      /\ jbSeen' \in [JobIds -> 0 .. JbMaxTime \cup {Never}]
  BY <1>1, RememberedIs DEF JInv, JbTypeOK, Remembered
<1>. DEFINE started(at, tries) == [at |-> at, began |-> jbNow, tries |-> tries]
<1>3. PICK task \in Task :
        /\ jbTask' = [jbTask EXCEPT ![e] = task]
        /\ \/ task.at = "ended" /\ task.began = jbTask[e].began
           \/ task.at = "executing" /\ task.began = jbNow
           \/ task.at = "waiting" /\ task.began = jbNow /\ task.tries = 0
  <2>1. CASE Moves(e, "ended")
    <3>1. [jbTask[e] EXCEPT !.at = "ended"] \in Task
      BY DEF JInv, JbTypeOK, Task
    <3>. QED
      BY <2>1, <3>1 DEF Moves, JInv, JbTypeOK
  <2>2. started("executing", 1) \in Task /\ started("waiting", 0) \in Task
    BY JobsAssumption DEF JInv, JbTypeOK, Task
  <2>3. CASE ~Moves(e, "ended")
    <3>1. \/ jbTask' = [jbTask EXCEPT ![e] = started("executing", 1)]
          \/ jbTask' = [jbTask EXCEPT ![e] = started("waiting", 0)]
      BY <2>3 DEF JbBegin
    <3>. QED
      BY <2>2, <3>1
  <2>. QED
    BY <2>1, <2>3
<1>4. jbTask'[e] = task /\ \A f \in JobTasks \ {e} : jbTask'[f] = jbTask[f]
  BY <1>3 DEF JInv, JbTypeOK
<1>5. jbTask[e].began = Never
  BY <1>1 DEF JInv, TaskIsSo
<1>6. JbTypeOK'
  BY <1>1, <1>2, <1>3 DEF JInv, JbTypeOK, Task
<1>7. jbNow \in 0 .. JbMaxTime
  BY DEF JInv, JbTypeOK
<1>8. TaskIsSo'
  BY <1>1, <1>3, <1>4, <1>5, <1>7, JobsAssumption DEF JInv, TaskIsSo, Never
<1>9. SeenSince'
  <2>. SUFFICES ASSUME NEW f \in JobTasks, jbTask'[f].began # Never
                PROVE  \/ jbSeen'[JobOf(f)] >= jbTask'[f].began
                       \/ jbKeep' # Forever /\ jbTask'[f].began < jbNow' - jbKeep'
    BY DEF SeenSince
  <2>1. CASE f = e
    BY <1>2, <1>3, <1>4, <1>5, <1>7, <2>1, JobsAssumption
  <2>2. CASE f # e
    <3>1. JobOf(f) \in JobIds
      BY DEF JobIds
    <3>. QED
      BY <1>1, <1>2, <1>4, <2>2, <3>1, SeenStays
  <2>. QED
    BY <2>1, <2>2
<1>10. ASSUME NEW f \in JobTasks, f # e, JobOf(f) = JobOf(e), jbTask[f].began # Never
       PROVE  jbKeep # Forever /\ jbNow - jbTask[f].began > jbKeep
  <2>1. /\ jbTask[f].began \in 0 .. JbMaxTime
        /\ \/ jbSeen[JobOf(f)] >= jbTask[f].began
           \/ jbKeep # Forever /\ jbTask[f].began < jbNow - jbKeep
    BY <1>10 DEF JInv, JbTypeOK, SeenSince
  <2>2. /\ jbSeen[JobOf(f)] \in 0 .. JbMaxTime \cup {Never}
        /\ \/ jbSeen[JobOf(f)] = Never
           \/ jbKeep # Forever /\ jbSeen[JobOf(f)] < jbNow - jbKeep
    BY <1>1, <1>10, RememberedIs DEF JInv, JbTypeOK
  <2>. QED
    BY <1>7, <2>1, <2>2, KeepIsNumber, JobsAssumption DEF JInv, Never
<1>11. BegunOncePerWindow'
  <2>. SUFFICES ASSUME NEW f \in JobTasks, NEW g \in JobTasks, f # g, JobOf(f) = JobOf(g),
                       jbTask'[f].began # Never, jbTask'[g].began # Never
                PROVE  /\ jbKeep' # Forever
                       /\ \/ jbTask'[f].began - jbTask'[g].began > jbKeep'
                          \/ jbTask'[g].began - jbTask'[f].began > jbKeep'
    BY DEF BegunOncePerWindow
  <2>1. CASE f # e /\ g # e
    BY <1>1, <1>4, <2>1 DEF JInv, BegunOncePerWindow
  <2>2. CASE f = e
    BY <1>1, <1>3, <1>4, <1>5, <1>10, <2>2
  <2>3. CASE g = e
    BY <1>1, <1>3, <1>4, <1>5, <1>10, <2>3
  <2>. QED
    BY <2>1, <2>2, <2>3
<1>. QED
  BY <1>6, <1>8, <1>9, <1>11 DEF JInv

(* One task moves on. *)
LEMMA MoveJInv ==
  ASSUME JInv, NEW e \in JobTasks, NEW at \in {"executing", "backoff", "logging", "ended"},
         \/ Moves(e, at) /\ (at = "backoff" => jbTask[e].tries <= MaxRetries)
         \/ Attempts(e) /\ jbTask[e].at \in {"waiting", "backoff"},
         UNCHANGED <<jbNow, jbKeep>>, jbSeen' = jbSeen \/ jbSeen' = Remembered
  PROVE  JInv'
<1>1. jbTask \in [JobTasks -> Task]
  BY DEF JInv, JbTypeOK, Task
<1>2. CASE Moves(e, at) /\ (at = "backoff" => jbTask[e].tries <= MaxRetries)
  <2>1. /\ jbTask' \in [JobTasks -> Task] /\ jbTask'[e].began = jbTask[e].began
        /\ jbTask'[e].at = at /\ jbTask'[e].tries = jbTask[e].tries
        /\ \A f \in JobTasks \ {e} : jbTask'[f] = jbTask[f]
    BY <1>1, <1>2 DEF Moves, Task
  <2>. QED
    BY <1>2, <2>1, BeginsNothing DEF JInv, TaskIsSo
<1>3. CASE Attempts(e) /\ jbTask[e].at \in {"waiting", "backoff"}
  <2>1. jbTask[e].tries \in 0 .. MaxRetries
    BY <1>1, <1>3, JobsAssumption DEF JInv, TaskIsSo, Task
  <2>2. jbTask[e].tries + 1 \in 0 .. MaxRetries + 1
    BY <2>1, JobsAssumption
  <2>3. /\ jbTask' \in [JobTasks -> Task] /\ jbTask'[e].began = jbTask[e].began
        /\ jbTask'[e].at = "executing"
        /\ \A f \in JobTasks \ {e} : jbTask'[f] = jbTask[f]
    BY <1>1, <1>3, <2>2 DEF Attempts, Task
  <2>. QED
    BY <2>3, BeginsNothing DEF JInv, TaskIsSo
<1>. QED
  BY <1>2, <1>3

(* A call begins, or is cancelled. *)
LEMMA CallJInv ==
  ASSUME JInv, NEW c \in JbCalls, JbCall(c) \/ JbCancelled(c)
  PROVE  JInv'
<1>1. jbTask \in [JobTasks -> Task]
  BY DEF JInv, JbTypeOK, Task
<1>2. /\ jbTask' \in [JobTasks -> Task]
      /\ \A e \in JobTasks :
           \/ jbTask'[e] = jbTask[e]
           \/ /\ jbTask'[e].began = jbTask[e].began
              /\ jbTask'[e].at \in {"ready", "ended"}
              /\ jbTask'[e].at = "ready" => jbTask[e].at = "absent"
  BY <1>1 DEF JbCall, JbCancelled, Task
<1>. QED
  BY <1>2, BeginsNothing DEF JInv, TaskIsSo, JbCall, JbCancelled

(* Every step. *)
LEMMA NextJInv == JInv /\ [JobsNext]_jbVars => JInv'
<1>. SUFFICES ASSUME JInv, [JobsNext]_jbVars
              PROVE  JInv'
  OBVIOUS
<1>1. CASE UNCHANGED jbVars
  BY <1>1 DEF jbVars, JInv, JbTypeOK, TaskIsSo, SeenSince, BegunOncePerWindow
<1>2. ASSUME NEW e \in JobTasks, JobStep(e)
      PROVE  JInv'
  BY <1>2, BeginJInv, MoveJInv
     DEF JobStep, JbSkip, JbAcquire, JbAnswered, JbLogged, JbRaised, JbRetry
<1>. QED
  BY <1>1, <1>2, CallJInv, TickJInv DEF JobsNext

(* At first no task has begun. *)
LEMMA InitJInv == JbInit => JInv
  BY JobsAssumption
     DEF JbInit, JInv, JbTypeOK, TaskIsSo, SeenSince, BegunOncePerWindow, Never

(* Two tasks for one job are both begun only if their beginnings are further
   apart than the id is remembered; never if it is kept for good. *)
THEOREM JobIsBegunOnce == JobsSpec => []BegunOncePerWindow
<1>1. JInv => BegunOncePerWindow
  BY DEF JInv
<1>. QED
  BY <1>1, InitJInv, NextJInv, PTL DEF JobsSpec

----------------------------------------------------------------------------
(* VoiceSession, for any number of inputs and of parts of an answer.

   Each sender waits for the one send it has under way (OneSendEach), so that
   one given up with its task leaves the order of the others (InLine), and a
   number is behind all those that were taken before it.  A turn whose end has
   been sent, or is under way, has no part left to send (OverIsSilent), and
   none is under way behind its end (NoDeltaBehind), also when another task
   has sent it. *)

Send == [who : Spoken \cup {Main}, what : Events, turn : Spoken \cup {0}, seq : Nat]

(* The tasks, and the main loop, that wait for a send. *)
Busy  == {"opening", "talking", "finishing", "failing", "closing", "undoing"}
Waiting == {"refusing", "cancelling", "ending"}

(* The order of the sends under way, of which the first has been written. *)
InLine ==
  /\ \A i, j \in DOMAIN vsQueue : i < j => vsQueue[i].seq < vsQueue[j].seq
  /\ \A i \in DOMAIN vsQueue : vsQueue[i].seq < vsSeq
  /\ vsWire.last < vsSeq
  /\ vsQueue # <<>> => vsWire.last = vsQueue[1].seq

(* No part of an answer is under way behind the end of its turn. *)
NoDeltaBehind ==
  /\ \A i, j \in DOMAIN vsQueue :
       i < j /\ vsQueue[i].what = "done" /\ vsQueue[j].what = "delta" =>
         vsQueue[i].turn # vsQueue[j].turn
  /\ \A j \in DOMAIN vsQueue :
       j > 1 /\ vsQueue[j].what = "delta" => vsQueue[j].turn \notin vsWire.done

(* The end of turn t has been sent, or is under way. *)
Over(t) == \/ t \in vsWire.done
           \/ \E i \in DOMAIN vsQueue : vsQueue[i].what = "done" /\ vsQueue[i].turn = t

(* The task of such a turn has no part left to send. *)
OverIsSilent ==
  \A t \in Spoken : Over(t) => /\ vsTask[t] \notin {"none", "opening", "asking"}
                               /\ vsTask[t] = "talking" => vsLeft[t] = 0

(* Each sender waits for the one send it has under way. *)
OneSendEach ==
  /\ \A i, j \in DOMAIN vsQueue : vsQueue[i].who = vsQueue[j].who => i = j
  /\ \A i \in DOMAIN vsQueue :
       /\ IF vsQueue[i].who = Main THEN vsMain \in Waiting ELSE vsTask[vsQueue[i].who] \in Busy
       /\ vsQueue[i].what \in {"done", "delta"} => vsQueue[i].turn \in Spoken

Begun ==
  /\ \A t \in Spoken : t > vsInputs => vsTask[t] = "none"
  /\ vsActive # 0 => vsTask[vsActive] # "none"
  /\ ~vsOpen => vsQueue = <<>>

VInv == /\ VoiceTypeOK /\ InLine /\ NoDeltaBehind /\ OverIsSilent /\ OneSendEach /\ Begun
        /\ WireInOrder /\ NothingSaidAfterDone

(* What is left of the sends under way. *)
Kept(p) ==
  /\ p \in Seq(Send)
  /\ \A i \in DOMAIN p : \E k \in DOMAIN vsQueue : p[i] = vsQueue[k]
  /\ \A i, j \in DOMAIN p : i < j => p[i].seq < p[j].seq

(* What the queue of sends may become. *)
Good(q) ==
  /\ q \in Seq(Send)
  /\ \A i, j \in DOMAIN q : i < j => q[i].seq < q[j].seq
  /\ \A i, j \in DOMAIN q : i < j /\ q[i].what = "done" /\ q[j].what = "delta" =>
                              q[i].turn # q[j].turn
  /\ \A i \in DOMAIN q :
       \/ \E k \in DOMAIN vsQueue : q[i] = vsQueue[k]
       \/ q[i].seq = vsSeq /\ (q[i].what = "delta" => ~Over(q[i].turn))
  /\ \A i \in DOMAIN q : q[i].what \in {"done", "delta"} => q[i].turn \in Spoken

(* The sender w waits for its send after the step. *)
GoesOn(w) == IF w = Main THEN vsMain' \in Waiting ELSE vsTask'[w] \in Busy

(* What the end of turn t says of its task. *)
Quiet(t) == /\ vsTask[t] \notin {"none", "opening", "asking"}
            /\ vsTask[t] = "talking" => vsLeft[t] = 0

(* The rest of the state, which is of its types. *)
RestOK ==
  /\ vsOpen \in BOOLEAN /\ vsCancelled \in BOOLEAN
  /\ vsInputs \in 0 .. MaxInputs
  /\ vsMain \in {"receiving", "refusing", "cancelling", "ending", "closed"}
  /\ vsTask \in [Spoken -> TaskStates]
  /\ vsLeft \in [Spoken -> 0 .. MaxDeltas]
  /\ vsStray \subseteq Spoken
  /\ vsActive \in Spoken \cup {0}

(* What the invariant says of the sends alone. *)
LineOK ==
  /\ vsSeq \in Nat /\ vsQueue \in Seq(Send)
  /\ vsWire \in [last : Nat \cup {-1}, ordered : BOOLEAN, done : SUBSET Spoken, late : BOOLEAN]
  /\ InLine /\ NoDeltaBehind /\ OneSendEach /\ WireInOrder /\ NothingSaidAfterDone

(* The shapes. *)
LEMMA QueueIs ==
  ASSUME VInv
  PROVE  /\ vsQueue \in Seq(Send) /\ Len(vsQueue) \in Nat /\ DOMAIN vsQueue = 1 .. Len(vsQueue)
         /\ \A i \in DOMAIN vsQueue : vsQueue[i] \in Send /\ vsQueue[i].seq \in Nat
         /\ vsSeq \in Nat /\ Main \notin Spoken /\ LineOK
<1>1. vsQueue \in Seq(Send) /\ vsSeq \in Nat
  BY DEF VInv, VoiceTypeOK, Send
<1>2. \A i \in DOMAIN vsQueue : vsQueue[i] \in Send /\ vsQueue[i].seq \in Nat
  <2>1. \A i \in DOMAIN vsQueue : vsQueue[i] \in Send
    BY <1>1
  <2>. QED
    BY <2>1 DEF Send
<1>3. Main \notin Spoken
  BY VoiceAssumption DEF Main, Spoken
<1>4. Len(vsQueue) \in Nat /\ DOMAIN vsQueue = 1 .. Len(vsQueue)
  BY <1>1
<1>. QED
  BY <1>1, <1>2, <1>3, <1>4 DEF LineOK, VInv, VoiceTypeOK

(* A sequence without one of its elements. *)
LEMMA RemoveAtIs ==
  ASSUME NEW S, NEW q \in Seq(S), NEW k \in 1 .. Len(q)
  PROVE  /\ RemoveAt(q, k) \in Seq(S) /\ Len(RemoveAt(q, k)) = Len(q) - 1
         /\ \A i \in 1 .. Len(q) - 1 : RemoveAt(q, k)[i] = q[IF i < k THEN i ELSE i + 1]
<1>. DEFINE a == SubSeq(q, 1, k - 1)
            b == SubSeq(q, k + 1, Len(q))
            c == a \o b
<1>0. k \in Nat /\ Len(q) \in Nat /\ 1 <= k /\ k <= Len(q) /\ \A i \in 1 .. Len(q) : q[i] \in S
  OBVIOUS
<1>1. a \in Seq(S) /\ Len(a) = k - 1 /\ \A i \in 1 .. k - 1 : a[i] = q[i]
  <2>1. \A i \in 1 .. k - 1 : q[i] \in S
    BY <1>0
  <2>2. /\ a \in Seq(S) /\ Len(a) = IF 1 <= k - 1 THEN k - 1 - 1 + 1 ELSE 0
        /\ \A i \in 1 .. k - 1 - 1 + 1 : a[i] = q[1 + i - 1]
    BY <1>0, <2>1, SubSeqProperties
  <2>. HIDE DEF a
  <2>. QED
    BY <1>0, <2>2
<1>2. b \in Seq(S) /\ Len(b) = Len(q) - k /\ \A i \in 1 .. Len(q) - k : b[i] = q[k + i]
  <2>1. \A i \in k + 1 .. Len(q) : q[i] \in S
    BY <1>0
  <2>2. /\ b \in Seq(S) /\ Len(b) = IF k + 1 <= Len(q) THEN Len(q) - (k + 1) + 1 ELSE 0
        /\ \A i \in 1 .. Len(q) - (k + 1) + 1 : b[i] = q[k + 1 + i - 1]
    BY <1>0, <2>1, SubSeqProperties
  <2>. HIDE DEF b
  <2>. QED
    BY <1>0, <2>2
<1>3. /\ c \in Seq(S) /\ Len(c) = Len(a) + Len(b)
      /\ \A i \in 1 .. Len(a) + Len(b) : c[i] = IF i <= Len(a) THEN a[i] ELSE b[i - Len(a)]
  <2>. HIDE DEF a, b
  <2>. QED
    BY <1>1, <1>2, ConcatProperties
<1>4. RemoveAt(q, k) = c
  BY DEF RemoveAt
<1>5. c \in Seq(S) /\ Len(c) = Len(q) - 1
      /\ \A i \in 1 .. Len(q) - 1 : c[i] = q[IF i < k THEN i ELSE i + 1]
  <2>. HIDE DEF a, b, c
  <2>1. c \in Seq(S) /\ Len(c) = Len(q) - 1
    BY <1>0, <1>1, <1>2, <1>3
  <2>2. ASSUME NEW i \in 1 .. Len(q) - 1
        PROVE  c[i] = q[IF i < k THEN i ELSE i + 1]
    <3>0. c[i] = IF i <= Len(a) THEN a[i] ELSE b[i - Len(a)]
      <4>1. i \in 1 .. Len(a) + Len(b)
        BY <1>0, <1>1, <1>2
      <4>. QED
        BY <1>3, <4>1
    <3>1. CASE i < k
      <4>1. i <= Len(a) /\ i \in 1 .. k - 1
        BY <1>0, <1>1, <3>1
      <4>2. a[i] = q[i]
        BY <1>1, <4>1
      <4>. QED
        BY <3>0, <3>1, <4>1, <4>2
    <3>2. CASE i >= k
      <4>0. ~(i <= Len(a)) /\ ~(i < k)
        BY <1>0, <1>1, <3>2
      <4>1. i - Len(a) \in 1 .. Len(q) - k /\ k + (i - Len(a)) = i + 1
        BY <1>0, <1>1, <3>2
      <4>2. b[i - Len(a)] = q[i + 1]
        BY <1>2, <4>1
      <4>. QED
        BY <3>0, <4>0, <4>2
    <3>. QED
      BY <1>0, <3>1, <3>2
  <2>. QED
    BY <2>1, <2>2
<1>. QED
  BY <1>4, <1>5

(* The sends under way are left as they are. *)
LEMMA AllKept == ASSUME VInv PROVE Kept(vsQueue) /\ Kept(<<>>)
BY QueueIs DEF Kept, VInv, InLine

(* The first of them is done. *)
LEMMA TailKept ==
  ASSUME VInv, vsQueue # <<>>
  PROVE  /\ Kept(Tail(vsQueue)) /\ Head(vsQueue) = vsQueue[1] /\ 1 \in DOMAIN vsQueue
         /\ \A i \in DOMAIN Tail(vsQueue) : Tail(vsQueue)[i].who # Head(vsQueue).who
<1>1. Len(vsQueue) > 0 /\ Head(vsQueue) = vsQueue[1] /\ 1 \in DOMAIN vsQueue
  BY QueueIs
<1>2. /\ Tail(vsQueue) \in Seq(Send)
      /\ DOMAIN Tail(vsQueue) = 1 .. Len(vsQueue) - 1
      /\ \A i \in DOMAIN Tail(vsQueue) : Tail(vsQueue)[i] = vsQueue[i + 1]
  BY <1>1, QueueIs
<1>3. \A i \in DOMAIN Tail(vsQueue) : i + 1 \in DOMAIN vsQueue /\ i + 1 # 1 /\ i \in Nat
  BY <1>2, QueueIs
<1>4. \A i, j \in DOMAIN Tail(vsQueue) : i < j => Tail(vsQueue)[i].seq < Tail(vsQueue)[j].seq
  BY <1>2, <1>3 DEF VInv, InLine
<1>5. \A i \in DOMAIN Tail(vsQueue) : Tail(vsQueue)[i].who # vsQueue[1].who
  BY <1>1, <1>2, <1>3 DEF VInv, OneSendEach
<1>. QED
  BY <1>1, <1>2, <1>3, <1>4, <1>5 DEF Kept

(* Or that of one sender is given up. *)
LEMMA WithoutKept ==
  ASSUME VInv, NEW who
  PROVE  /\ Kept(Without(vsQueue, who))
         /\ \A i \in DOMAIN Without(vsQueue, who) : Without(vsQueue, who)[i].who # who
<1>1. CASE \E i \in DOMAIN vsQueue : vsQueue[i].who = who
  <2>. DEFINE k == CHOOSE i \in DOMAIN vsQueue : vsQueue[i].who = who
              p == RemoveAt(vsQueue, k)
  <2>1. k \in 1 .. Len(vsQueue) /\ vsQueue[k].who = who
    BY <1>1, QueueIs
  <2>2. Without(vsQueue, who) = p
    BY <1>1 DEF Without
  <2>. HIDE DEF k
  <2>3. /\ p \in Seq(Send) /\ DOMAIN p = 1 .. Len(vsQueue) - 1
        /\ \A i \in 1 .. Len(vsQueue) - 1 : p[i] = vsQueue[IF i < k THEN i ELSE i + 1]
    <3>1. /\ RemoveAt(vsQueue, k) \in Seq(Send) /\ Len(RemoveAt(vsQueue, k)) = Len(vsQueue) - 1
          /\ \A i \in 1 .. Len(vsQueue) - 1 :
               RemoveAt(vsQueue, k)[i] = vsQueue[IF i < k THEN i ELSE i + 1]
      BY <2>1, QueueIs, RemoveAtIs
    <3>. QED
      BY <3>1
  <2>. HIDE DEF p
  <2>4. \A i \in DOMAIN p : /\ (IF i < k THEN i ELSE i + 1) \in DOMAIN vsQueue
                            /\ (IF i < k THEN i ELSE i + 1) # k
    BY <2>1, <2>3, QueueIs
  <2>5. \A i, j \in DOMAIN p : i < j => p[i].seq < p[j].seq
    <3>. SUFFICES ASSUME NEW i \in DOMAIN p, NEW j \in DOMAIN p, i < j
                  PROVE  p[i].seq < p[j].seq
      OBVIOUS
    <3>1. (IF i < k THEN i ELSE i + 1) < (IF j < k THEN j ELSE j + 1)
      BY <2>1, <2>3
    <3>. QED
      BY <2>3, <2>4, <3>1 DEF VInv, InLine
  <2>6. \A i \in DOMAIN p : p[i].who # who
    BY <2>1, <2>3, <2>4, QueueIs DEF VInv, OneSendEach
  <2>. QED
    BY <2>2, <2>3, <2>4, <2>5, <2>6 DEF Kept
<1>2. CASE ~\E i \in DOMAIN vsQueue : vsQueue[i].who = who
  BY <1>2, AllKept DEF Without
<1>. QED
  BY <1>1, <1>2

(* What is left may be what the queue becomes. *)
LEMMA KeptIsGood == ASSUME VInv, NEW p, Kept(p) PROVE Good(p)
<1>1. ASSUME NEW i \in DOMAIN p, NEW j \in DOMAIN p, i < j, p[i].what = "done", p[j].what = "delta"
      PROVE  p[i].turn # p[j].turn
  <2>1. PICK k \in DOMAIN vsQueue : p[i] = vsQueue[k]
    BY DEF Kept
  <2>2. PICK l \in DOMAIN vsQueue : p[j] = vsQueue[l]
    BY DEF Kept
  <2>3. vsQueue[k].seq < vsQueue[l].seq
    BY <1>1, <2>1, <2>2 DEF Kept
  <2>4. k < l
    BY <2>3, QueueIs DEF VInv, InLine
  <2>. QED
    BY <1>1, <2>1, <2>2, <2>4 DEF VInv, NoDeltaBehind
<1>2. \A i \in DOMAIN p : p[i].what \in {"done", "delta"} => p[i].turn \in Spoken
  BY DEF Kept, VInv, OneSendEach
<1>. QED
  BY <1>1, <1>2 DEF Kept, Good

(* So may what is left and one more send, which comes last. *)
LEMMA JoinedIsGood ==
  ASSUME VInv, NEW p, Kept(p), NEW e \in Send, e.seq = vsSeq,
         e.what = "delta" => ~Over(e.turn), e.what \in {"done", "delta"} => e.turn \in Spoken
  PROVE  /\ Good(Append(p, e))
         /\ DOMAIN Append(p, e) = DOMAIN p \cup {Len(p) + 1} /\ Append(p, e)[Len(p) + 1] = e
         /\ \A i \in DOMAIN p : Append(p, e)[i] = p[i] /\ i # Len(p) + 1
<1>. DEFINE q == Append(p, e)
<1>1. p \in Seq(Send) /\ Len(p) \in Nat /\ DOMAIN p = 1 .. Len(p)
  BY DEF Kept
<1>2. /\ q \in Seq(Send) /\ DOMAIN q = DOMAIN p \cup {Len(p) + 1} /\ q[Len(p) + 1] = e
      /\ \A i \in DOMAIN p : q[i] = p[i] /\ i # Len(p) + 1 /\ i < Len(p) + 1
  BY <1>1
<1>. HIDE DEF q
<1>3. \A i \in DOMAIN p : p[i].seq < vsSeq
  BY DEF Kept, VInv, InLine
<1>4. \A i, j \in DOMAIN q : i < j => i \in DOMAIN p /\ (j \in DOMAIN p \/ j = Len(p) + 1)
  BY <1>1, <1>2
<1>5. \A i, j \in DOMAIN q : i < j => q[i].seq < q[j].seq
  BY <1>2, <1>3, <1>4 DEF Kept
<1>6. ASSUME NEW i \in DOMAIN q, NEW j \in DOMAIN q, i < j, q[i].what = "done", q[j].what = "delta"
      PROVE  q[i].turn # q[j].turn
  <2>1. CASE j \in DOMAIN p
    BY <1>2, <1>4, <1>6, <2>1, KeptIsGood DEF Good
  <2>2. CASE j = Len(p) + 1
    <3>1. PICK k \in DOMAIN vsQueue : q[i] = vsQueue[k]
      BY <1>2, <1>4, <1>6 DEF Kept
    <3>. QED
      BY <1>2, <1>6, <2>2, <3>1 DEF Over
  <2>. QED
    BY <1>4, <1>6, <2>1, <2>2
<1>7. \A i \in DOMAIN q :
       /\ \/ \E k \in DOMAIN vsQueue : q[i] = vsQueue[k]
          \/ q[i].seq = vsSeq /\ (q[i].what = "delta" => ~Over(q[i].turn))
       /\ q[i].what \in {"done", "delta"} => q[i].turn \in Spoken
  BY <1>2, KeptIsGood DEF Kept, Good
<1>. QED
  BY <1>2, <1>5, <1>6, <1>7 DEF Good, q

(* A new head is later than the last one written, and says nothing of a turn
   that has ended. *)
LEMMA SendsKeeps ==
  ASSUME VInv, NEW q, Good(q), Sends(q), vsSeq' \in Nat, vsSeq' >= vsSeq,
         \A i \in DOMAIN q : q[i].seq < vsSeq'
  PROVE  /\ vsQueue' \in Seq(Send) /\ InLine' /\ NoDeltaBehind'
         /\ vsWire' \in [last : Nat \cup {-1}, ordered : BOOLEAN, done : SUBSET Spoken, late : BOOLEAN]
         /\ WireInOrder' /\ NothingSaidAfterDone'
         /\ \A t \in Spoken : Over(t)' =>
              Over(t) \/ \E i \in DOMAIN q : q[i].what = "done" /\ q[i].turn = t
<1>1. /\ q \in Seq(Send) /\ Len(q) \in Nat /\ DOMAIN q = 1 .. Len(q) /\ vsQueue' = q
      /\ \A i \in DOMAIN q : q[i] \in Send /\ q[i].seq \in Nat
      /\ q # <<>> => 1 \in DOMAIN q /\ Head(q) = q[1] /\ \A i \in DOMAIN q : i # 1 => 1 < i
  <2>1. q \in Seq(Send) /\ vsQueue' = q
    BY DEF Good, Sends
  <2>2. \A i \in DOMAIN q : q[i] \in Send
    BY <2>1
  <2>3. \A i \in DOMAIN q : q[i].seq \in Nat
    BY <2>2 DEF Send
  <2>4. q # <<>> => 1 \in DOMAIN q /\ Head(q) = q[1] /\ \A i \in DOMAIN q : i # 1 => 1 < i
    BY <2>1
  <2>. QED
    BY <2>1, <2>2, <2>3, <2>4
<1>2. /\ vsWire \in [last : Nat \cup {-1}, ordered : BOOLEAN, done : SUBSET Spoken, late : BOOLEAN]
      /\ vsWire.last < vsSeq /\ vsWire.ordered /\ ~vsWire.late /\ vsSeq \in Nat
  BY DEF VInv, VoiceTypeOK, InLine, WireInOrder, NothingSaidAfterDone
<1>3. vsQueue # <<>> => Head(vsQueue) = vsQueue[1] /\ 1 \in DOMAIN vsQueue
                        /\ vsWire.last = vsQueue[1].seq
  BY TailKept DEF VInv, InLine
(* What is not the old head comes later, and does not go on with a turn that
   has ended. *)
<1>4. ASSUME NEW i \in DOMAIN q, ~(vsQueue # <<>> /\ q[i] = vsQueue[1])
      PROVE  q[i].seq > vsWire.last /\ (q[i].what = "delta" => q[i].turn \notin vsWire.done)
  <2>1. CASE \E k \in DOMAIN vsQueue : q[i] = vsQueue[k]
    <3>1. PICK k \in DOMAIN vsQueue : q[i] = vsQueue[k]
      BY <2>1
    <3>2. vsQueue # <<>> /\ k > 1
      BY <1>4, <3>1, QueueIs
    <3>. QED
      BY <1>3, <3>1, <3>2, QueueIs DEF VInv, InLine, NoDeltaBehind
  <2>2. CASE q[i].seq = vsSeq /\ (q[i].what = "delta" => ~Over(q[i].turn))
    BY <1>2, <2>2 DEF Over
  <2>. QED
    BY <2>1, <2>2 DEF Good
<1>5. CASE q = <<>> \/ (vsQueue # <<>> /\ Head(q) = Head(vsQueue))
  <2>1. vsWire' = vsWire
    BY <1>5 DEF Sends
  <2>2. q # <<>> => vsWire.last = q[1].seq
    BY <1>1, <1>3, <1>5
  <2>3. \A j \in DOMAIN q : j > 1 /\ q[j].what = "delta" => q[j].turn \notin vsWire.done
    <3>. SUFFICES ASSUME NEW j \in DOMAIN q, j > 1, q[j].what = "delta"
                  PROVE  q[j].turn \notin vsWire.done
      OBVIOUS
    <3>1. q # <<>> /\ q[1].seq < q[j].seq
      BY <1>1 DEF Good
    <3>2. q[j] # vsQueue[1]
      BY <1>1, <1>3, <1>5, <3>1
    <3>. QED
      BY <1>4, <3>2
  <2>4. InLine'
    BY <1>1, <1>2, <2>1, <2>2 DEF InLine, Good
  <2>5. NoDeltaBehind'
    BY <1>1, <2>1, <2>3 DEF NoDeltaBehind, Good
  <2>6. \A t \in Spoken : Over(t)' =>
          Over(t) \/ \E i \in DOMAIN q : q[i].what = "done" /\ q[i].turn = t
    BY <1>1, <2>1 DEF Over
  <2>. QED
    BY <1>1, <1>2, <2>1, <2>4, <2>5, <2>6 DEF WireInOrder, NothingSaidAfterDone
<1>6. CASE ~(q = <<>> \/ (vsQueue # <<>> /\ Head(q) = Head(vsQueue)))
  <2>. DEFINE e == q[1]
  <2>1. /\ q # <<>> /\ 1 \in DOMAIN q /\ e \in Send
        /\ ~(vsQueue # <<>> /\ e = vsQueue[1])
    BY <1>1, <1>3, <1>6
  <2>2. e.seq > vsWire.last /\ (e.what = "delta" => e.turn \notin vsWire.done)
    BY <1>4, <2>1
  <2>3. /\ vsWire'.last = e.seq /\ vsWire'.ordered /\ ~vsWire'.late
        /\ vsWire'.done = IF e.what = "done" THEN vsWire.done \cup {e.turn} ELSE vsWire.done
        /\ vsWire' \in [last : Nat \cup {-1}, ordered : BOOLEAN, done : SUBSET Spoken, late : BOOLEAN]
    <3>1. vsWire' = [last    |-> e.seq,
                     ordered |-> vsWire.ordered /\ e.seq > vsWire.last,
                     done    |-> IF e.what = "done" THEN vsWire.done \cup {e.turn} ELSE vsWire.done,
                     late    |-> vsWire.late \/ (e.what = "delta" /\ e.turn \in vsWire.done)]
      BY <1>1, <1>6 DEF Sends
    <3>2. e.what = "done" => e.turn \in Spoken
      BY <2>1 DEF Good
    <3>3. e.seq \in Nat
      BY <1>1, <2>1
    <3>4. (vsWire.ordered /\ e.seq > vsWire.last) = TRUE
          /\ (vsWire.late \/ (e.what = "delta" /\ e.turn \in vsWire.done)) = FALSE
      BY <1>2, <2>2
    <3>. HIDE DEF e
    <3>. QED
      BY <1>2, <3>1, <3>2, <3>3, <3>4
  <2>4. \A j \in DOMAIN q : j > 1 => q[j] # e /\ e.seq < q[j].seq
    BY <1>1, <2>1 DEF Good
  <2>5. \A j \in DOMAIN q : j > 1 /\ q[j].what = "delta" => q[j].turn \notin vsWire'.done
    <3>. SUFFICES ASSUME NEW j \in DOMAIN q, j > 1, q[j].what = "delta"
                  PROVE  q[j].turn \notin vsWire'.done
      OBVIOUS
    <3>1. ~(vsQueue # <<>> /\ q[j] = vsQueue[1])
      BY <1>1, <1>2, <1>3, <2>1, <2>2, <2>4
    <3>2. q[j].turn \notin vsWire.done
      BY <1>4, <3>1
    <3>3. e.what = "done" => e.turn # q[j].turn
      BY <1>1, <2>1 DEF Good
    <3>. QED
      BY <2>3, <3>2, <3>3
  <2>6. InLine'
    BY <1>1, <2>1, <2>3 DEF InLine, Good
  <2>7. NoDeltaBehind'
    BY <1>1, <2>5 DEF NoDeltaBehind, Good
  <2>8. \A t \in Spoken : Over(t)' =>
          Over(t) \/ \E i \in DOMAIN q : q[i].what = "done" /\ q[i].turn = t
    BY <1>1, <2>1, <2>3 DEF Over
  <2>. QED
    BY <1>1, <2>3, <2>6, <2>7, <2>8 DEF WireInOrder, NothingSaidAfterDone
<1>. QED
  BY <1>5, <1>6

(* The invariant, in its parts. *)
LEMMA Parts == VInv <=> LineOK /\ RestOK /\ Begun /\ \A t \in Spoken : Over(t) => Quiet(t)
BY DEF VInv, LineOK, RestOK, VoiceTypeOK, Send, OverIsSilent, Quiet

(* The same of the next state. *)
LEMMA PartsNext ==
  ASSUME LineOK', RestOK', Begun', \A t \in Spoken : Over(t)' => Quiet(t)'
  PROVE  VInv'
BY DEF VInv, LineOK, RestOK, VoiceTypeOK, Send, OverIsSilent, Quiet

(* Whoever has a send under way waits for it. *)
LEMMA KeptWait ==
  ASSUME VInv, NEW p, Kept(p)
  PROVE  /\ \A i \in DOMAIN p : /\ p[i].who \in Spoken \cup {Main}
                               /\ IF p[i].who = Main THEN vsMain \in Waiting
                                                     ELSE vsTask[p[i].who] \in Busy
         /\ \A i, j \in DOMAIN p : p[i].who = p[j].who => i = j
<1>1. ASSUME NEW i \in DOMAIN p
      PROVE  \E k \in DOMAIN vsQueue : p[i] = vsQueue[k]
  BY DEF Kept
<1>2. \A i \in DOMAIN p : /\ p[i].who \in Spoken \cup {Main}
                         /\ IF p[i].who = Main THEN vsMain \in Waiting
                                               ELSE vsTask[p[i].who] \in Busy
  <2>1. \A k \in DOMAIN vsQueue : vsQueue[k].who \in Spoken \cup {Main}
    BY QueueIs DEF Send
  <2>. QED
    BY <1>1, <2>1 DEF VInv, OneSendEach
<1>3. ASSUME NEW i \in DOMAIN p, NEW j \in DOMAIN p, p[i].who = p[j].who
      PROVE  i = j
  <2>1. p[i] = p[j]
    BY <1>1, <1>3 DEF VInv, OneSendEach
  <2>2. i \in Nat /\ j \in Nat /\ p[i].seq \in Nat
    BY <1>1, QueueIs DEF Kept
  <2>. QED
    BY <2>1, <2>2 DEF Kept
<1>. QED
  BY <1>2, <1>3

(* Each sender still has one send under way, and waits for it. *)
LEMMA EachKeeps ==
  ASSUME VInv, NEW q, Good(q), vsQueue' = q,
         \A i \in DOMAIN q : GoesOn(q[i].who),
         \A i, j \in DOMAIN q : q[i].who = q[j].who => i = j
  PROVE  OneSendEach'
BY DEF OneSendEach, Good, GoesOn

(* Some of the sends under way are not there any more. *)
LEMMA DropKeeps ==
  ASSUME VInv, NEW p, Kept(p), Sends(p), UNCHANGED vsSeq,
         \A i \in DOMAIN p : GoesOn(p[i].who)
  PROVE  LineOK' /\ \A t \in Spoken : Over(t)' => Over(t)
<1>1. Good(p)
  BY KeptIsGood
<1>2. vsSeq \in Nat /\ vsSeq' \in Nat /\ vsSeq' >= vsSeq /\ \A i \in DOMAIN p : p[i].seq < vsSeq'
  BY QueueIs DEF Kept, VInv, InLine
<1>3. OneSendEach'
  BY <1>1, KeptWait, EachKeeps DEF Sends
<1>4. /\ vsQueue' \in Seq(Send) /\ InLine' /\ NoDeltaBehind'
      /\ vsWire' \in [last : Nat \cup {-1}, ordered : BOOLEAN, done : SUBSET Spoken, late : BOOLEAN]
      /\ WireInOrder' /\ NothingSaidAfterDone'
      /\ \A t \in Spoken : Over(t)' =>
           Over(t) \/ \E i \in DOMAIN p : p[i].what = "done" /\ p[i].turn = t
  BY <1>1, <1>2, SendsKeeps
<1>5. \A t \in Spoken : (\E i \in DOMAIN p : p[i].what = "done" /\ p[i].turn = t) => Over(t)
  BY DEF Kept, Over
<1>. QED
  BY <1>2, <1>3, <1>4, <1>5 DEF LineOK

(* One more send joins them. *)
LEMMA SendKeeps ==
  ASSUME VInv, NEW p, Kept(p), NEW who \in Spoken \cup {Main}, NEW what \in Events,
         NEW turn \in Spoken \cup {0}, SendEvent(p, who, what, turn),
         what = "delta" => ~Over(turn), what \in {"done", "delta"} => turn \in Spoken,
         \A i \in DOMAIN p : p[i].who # who /\ GoesOn(p[i].who),
         GoesOn(who)
  PROVE  LineOK' /\ \A t \in Spoken : Over(t)' => Over(t) \/ (what = "done" /\ turn = t)
<1>. DEFINE e == [who |-> who, what |-> what, turn |-> turn, seq |-> vsSeq]
            q == Append(p, e)
<1>1. e \in Send /\ e.seq = vsSeq /\ e.who = who /\ e.what = what /\ e.turn = turn
  BY QueueIs DEF Send
<1>2. Sends(q) /\ vsSeq' = vsSeq + 1
  BY DEF SendEvent, Joining
<1>. HIDE DEF e
<1>3. /\ Good(q) /\ DOMAIN q = DOMAIN p \cup {Len(p) + 1} /\ q[Len(p) + 1] = e
      /\ \A i \in DOMAIN p : q[i] = p[i] /\ i # Len(p) + 1
  BY <1>1, JoinedIsGood
<1>. HIDE DEF q
<1>4. vsSeq \in Nat /\ vsSeq' \in Nat /\ vsSeq' >= vsSeq /\ \A i \in DOMAIN q : q[i].seq < vsSeq'
  <2>1. vsSeq \in Nat
    BY QueueIs
  <2>2. \A i \in DOMAIN p : p[i].seq < vsSeq /\ p[i].seq \in Nat
    BY QueueIs DEF Kept, VInv, InLine
  <2>. QED
    BY <1>1, <1>2, <1>3, <2>1, <2>2
<1>5. OneSendEach'
  <2>1. \A i \in DOMAIN q : GoesOn(q[i].who)
    BY <1>1, <1>3
  <2>2. \A i, j \in DOMAIN q : q[i].who = q[j].who => i = j
    BY <1>1, <1>3, KeptWait
  <2>. QED
    BY <1>2, <1>3, <2>1, <2>2, EachKeeps DEF Sends
<1>6. /\ vsQueue' \in Seq(Send) /\ InLine' /\ NoDeltaBehind'
      /\ vsWire' \in [last : Nat \cup {-1}, ordered : BOOLEAN, done : SUBSET Spoken, late : BOOLEAN]
      /\ WireInOrder' /\ NothingSaidAfterDone'
      /\ \A t \in Spoken : Over(t)' =>
           Over(t) \/ \E i \in DOMAIN q : q[i].what = "done" /\ q[i].turn = t
  BY <1>2, <1>3, <1>4, SendsKeeps
<1>7. \A t \in Spoken : (\E i \in DOMAIN q : q[i].what = "done" /\ q[i].turn = t) =>
                        Over(t) \/ (what = "done" /\ turn = t)
  BY <1>1, <1>3 DEF Kept, Over
<1>. QED
  BY <1>4, <1>5, <1>6, <1>7 DEF LineOK

(* Nothing is sent. *)
LEMMA StillKeeps ==
  ASSUME VInv, UNCHANGED <<vsSeq, vsQueue, vsWire>>,
         \A i \in DOMAIN vsQueue : GoesOn(vsQueue[i].who)
  PROVE  LineOK' /\ \A t \in Spoken : Over(t)' => Over(t)
<1>1. OneSendEach'
  BY DEF VInv, OneSendEach, GoesOn
<1>. QED
  BY <1>1, QueueIs DEF LineOK, InLine, NoDeltaBehind, WireInOrder, NothingSaidAfterDone, Over

(* A task that is cancelled says no more than the end of its answer. *)
LEMMA CancelIs ==
  ASSUME VInv, NEW t \in Spoken, vsTask[t] # "none",
         NEW tasks \in [Spoken -> TaskStates], CancelTurn(t, tasks)
  PROVE  /\ vsTask' \in [Spoken -> TaskStates] /\ vsTask'[t] \in {"clearing", "talking", "ended"}
         /\ vsLeft' \in [Spoken -> 0 .. MaxDeltas] /\ vsLeft'[t] = 0
         /\ \A u \in Spoken \ {t} : vsTask'[u] = tasks[u] /\ vsLeft'[u] = vsLeft[u]
         /\ vsStray' \subseteq Spoken /\ vsCancelled' \in BOOLEAN /\ Quiet(t)'
<1>1. PICK stray \in BOOLEAN :
        /\ stray => vsTask[t] = "asking"
        /\ vsTask'  = [tasks EXCEPT ![t] = AfterCancel(t, stray)]
        /\ vsStray' = IF stray THEN vsStray \cup {t} ELSE vsStray
        /\ vsLeft'  = [vsLeft EXCEPT ![t] = 0]
  BY DEF CancelTurn
<1>2. AfterCancel(t, stray) \in {"clearing", "talking", "ended"}
  BY <1>1 DEF AfterCancel
<1>3. /\ vsTask \in [Spoken -> TaskStates] /\ vsLeft \in [Spoken -> 0 .. MaxDeltas]
      /\ vsStray \subseteq Spoken /\ 0 \in 0 .. MaxDeltas
  BY VoiceAssumption DEF VInv, VoiceTypeOK
<1>4. vsCancelled' \in BOOLEAN
  BY DEF CancelTurn
<1>5. /\ vsTask' \in [Spoken -> TaskStates] /\ vsTask'[t] \in {"clearing", "talking", "ended"}
      /\ \A u \in Spoken \ {t} : vsTask'[u] = tasks[u]
  <2>1. AfterCancel(t, stray) \in TaskStates
    BY <1>2 DEF TaskStates
  <2>. QED
    BY <1>1, <1>2, <2>1
<1>6. vsLeft' \in [Spoken -> 0 .. MaxDeltas] /\ vsLeft'[t] = 0
      /\ \A u \in Spoken \ {t} : vsLeft'[u] = vsLeft[u]
  BY <1>1, <1>3
<1>. QED
  BY <1>1, <1>3, <1>4, <1>5, <1>6 DEF Quiet

(* The facts of a state that the actions look at. *)
LEMMA StateIs ==
  ASSUME VInv
  PROVE  /\ LineOK /\ RestOK /\ Begun /\ \A t \in Spoken : Over(t) => Quiet(t)
         /\ Main \notin Spoken /\ 0 \notin Spoken /\ MaxInputs \in Nat
         /\ \A i \in DOMAIN vsQueue : /\ vsQueue[i].who \in Spoken \cup {Main}
                                      /\ IF vsQueue[i].who = Main THEN vsMain \in Waiting
                                         ELSE vsTask[vsQueue[i].who] \in Busy
BY Parts, QueueIs, KeptWait, AllKept, VoiceAssumption DEF Spoken

(* Nothing but the tasks, and what they have left, changes: the task of t is
   not one that waits, or still waits. *)
LEMMA OthersGoOn ==
  ASSUME VInv, NEW p, Kept(p), NEW t \in Spoken,
         vsMain' = vsMain \/ vsMain' \in Waiting \/ \A i \in DOMAIN p : p[i].who # Main,
         \A u \in Spoken \ {t} : vsTask'[u] = vsTask[u],
         vsTask'[t] \in Busy \/ vsTask[t] \notin Busy \/ \A i \in DOMAIN p : p[i].who # t
  PROVE  \A i \in DOMAIN p : GoesOn(p[i].who)
BY KeptWait, QueueIs DEF GoesOn

(* The task of t becomes state, and nothing else of the turns changes. *)
LEMMA BecomesIs ==
  ASSUME VInv, NEW t \in Spoken, NEW state \in TaskStates, Becomes(t, state)
  PROVE  /\ vsTask' \in [Spoken -> TaskStates] /\ vsTask'[t] = state
         /\ \A u \in Spoken \ {t} : vsTask'[u] = vsTask[u]
BY DEF Becomes, VInv, VoiceTypeOK

(* An input is refused. *)
LEMMA RefuseKeeps == ASSUME VInv, VoiceRefuse PROVE VInv'
<1>1. /\ vsMain = "receiving" /\ vsMain' = "refusing" /\ vsInputs' = vsInputs + 1
      /\ vsInputs < MaxInputs /\ UNCHANGED <<vsOpen, vsTurns, vsActive, vsCancelled>>
      /\ SendEvent(vsQueue, Main, "error", 0) /\ vsOpen
  BY DEF VoiceRefuse, Receives
<1>2. \A i \in DOMAIN vsQueue : vsQueue[i].who # Main /\ GoesOn(vsQueue[i].who)
  BY <1>1, StateIs DEF GoesOn, Waiting, vsTurns
<1>3. LineOK' /\ \A t \in Spoken : Over(t)' => Over(t)
  <2>1. "error" \in Events /\ "error" \notin {"done", "delta"} /\ GoesOn(Main)
    BY <1>1 DEF Events, GoesOn, Waiting
  <2>2. Main \in Spoken \cup {Main} /\ 0 \in Spoken \cup {0}
    OBVIOUS
  <2>. QED
    BY <1>1, <1>2, <2>1, <2>2, AllKept, SendKeeps
<1>4. \A t \in Spoken : Over(t)' => Quiet(t)'
  BY <1>1, <1>3, StateIs DEF Quiet, vsTurns
<1>5. RestOK' /\ Begun'
  BY <1>1, StateIs DEF RestOK, Begun, vsTurns, Spoken
<1>. QED
  BY <1>3, <1>4, <1>5, PartsNext

(* A turn begins, of which nothing has been said. *)
LEMMA InputKeeps == ASSUME VInv, VoiceInput PROVE VInv'
<1>. DEFINE t == vsInputs + 1
<1>1. /\ vsMain = "receiving" /\ vsInputs' = vsInputs + 1 /\ vsInputs < MaxInputs /\ vsOpen
      /\ vsActive' = t /\ vsCancelled' = FALSE /\ Becomes(t, "opening")
      /\ SendEvent(vsQueue, t, "started", t) /\ UNCHANGED <<vsOpen, vsMain, vsLeft, vsStray>>
  BY DEF VoiceInput, Receives
<1>2. t \in Spoken /\ vsTask[t] = "none"
  BY <1>1, StateIs DEF RestOK, Begun, Spoken
<1>3. /\ vsTask' \in [Spoken -> TaskStates] /\ vsTask'[t] = "opening"
      /\ \A u \in Spoken \ {t} : vsTask'[u] = vsTask[u]
  BY <1>1, <1>2, BecomesIs DEF TaskStates
<1>4. \A i \in DOMAIN vsQueue : vsQueue[i].who # t /\ GoesOn(vsQueue[i].who)
  <2>1. \A i \in DOMAIN vsQueue : vsQueue[i].who # t
    BY <1>2, StateIs DEF Busy
  <2>. QED
    BY <1>1, <1>2, <1>3, <2>1, AllKept, OthersGoOn
<1>5. LineOK' /\ \A u \in Spoken : Over(u)' => Over(u)
  <2>1. "started" \in Events /\ "started" \notin {"done", "delta"} /\ GoesOn(t)
    BY <1>2, <1>3, StateIs DEF Events, GoesOn, Busy
  <2>2. t \in Spoken \cup {Main} /\ t \in Spoken \cup {0}
    BY <1>2
  <2>. HIDE DEF t
  <2>. QED
    BY <1>1, <1>4, <2>1, <2>2, AllKept, SendKeeps
<1>6. ~Over(t)
  BY <1>2, StateIs DEF Quiet
<1>7. \A u \in Spoken : Over(u)' => Quiet(u)'
  BY <1>1, <1>3, <1>5, <1>6, StateIs DEF Quiet
<1>8. RestOK' /\ Begun'
  <2>1. RestOK'
    <3>1. vsInputs' \in 0 .. MaxInputs /\ vsActive' \in Spoken
      BY <1>1, <1>2, StateIs DEF RestOK
    <3>. HIDE DEF t
    <3>. QED
      BY <1>1, <1>3, <3>1, StateIs DEF RestOK
  <2>2. ASSUME NEW u \in Spoken, u > vsInputs'
        PROVE  vsTask'[u] = "none"
    <3>1. u # t /\ u > vsInputs
      BY <1>1, <2>2, StateIs DEF RestOK, Spoken
    <3>. QED
      BY <1>3, <2>2, <3>1, StateIs DEF Begun
  <2>3. vsTask'[vsActive'] # "none" /\ vsOpen'
    BY <1>1, <1>3
  <2>. QED
    BY <2>1, <2>2, <2>3 DEF Begun
<1>. QED
  BY <1>5, <1>7, <1>8, PartsNext

(* The sends under way are given up when the connection is closed. *)
LEMMA CloseKeeps ==
  ASSUME VInv, Closes, UNCHANGED vsSeq
  PROVE  LineOK' /\ (\A t \in Spoken : Over(t)' => Over(t))
         /\ vsQueue' = <<>> /\ vsMain' = "closed" /\ vsOpen' = FALSE
<1>1. Kept(<<>>) /\ \A i \in DOMAIN <<>> : FALSE
  BY AllKept
<1>. QED
  BY <1>1, DropKeeps DEF Closes, Sends

(* The active turn is cancelled, and its end is sent by the main loop. *)
LEMMA CancelKeeps ==
  ASSUME VInv, NEW next \in {"cancelling", "ending"}, VoiceCancel(next)
  PROVE  VInv'
<1>1. /\ vsMain = "receiving" /\ vsOpen /\ vsInputs' \in 0 .. MaxInputs /\ vsInputs' >= vsInputs
      /\ vsInputs \in Nat /\ UNCHANGED vsActive
  <2>1. vsInputs \in 0 .. MaxInputs /\ MaxInputs \in Nat
    BY StateIs DEF RestOK
  <2>. QED
    BY <2>1 DEF VoiceCancel, Receives
<1>2. CASE vsActive = 0 /\ next = "ending"
  <2>1. Closes /\ UNCHANGED <<vsTurns, vsCancelled, vsSeq>>
    BY <1>2 DEF VoiceCancel
  <2>2. \A t \in Spoken : Over(t)' => Quiet(t)'
    BY <2>1, CloseKeeps, StateIs DEF Quiet, vsTurns
  <2>3. RestOK' /\ Begun'
    BY <1>1, <2>1, CloseKeeps, StateIs DEF RestOK, Begun, vsTurns, Spoken
  <2>. QED
    BY <2>1, <2>2, <2>3, CloseKeeps, PartsNext
<1>3. CASE vsActive = 0 /\ next = "cancelling"
  <2>1. UNCHANGED <<vsOpen, vsMain, vsQueue, vsWire, vsTurns, vsCancelled, vsSeq>>
    BY <1>3 DEF VoiceCancel
  <2>2. LineOK' /\ \A t \in Spoken : Over(t)' => Over(t)
    BY <2>1, StateIs, StillKeeps DEF GoesOn, vsTurns
  <2>3. \A t \in Spoken : Over(t)' => Quiet(t)'
    BY <2>1, <2>2, StateIs DEF Quiet, vsTurns
  <2>4. RestOK' /\ Begun'
    BY <1>1, <2>1, StateIs DEF RestOK, Begun, vsTurns, Spoken
  <2>. QED
    BY <2>2, <2>3, <2>4, PartsNext
<1>4. CASE vsActive # 0
  <2>0. PICK a \in Spoken : a = vsActive
    BY <1>4, StateIs DEF RestOK
  <2>. DEFINE p == Without(vsQueue, a)
  <2>1. /\ CancelTurn(a, vsTask) /\ SendEvent(p, Main, "done", a)
        /\ vsMain' = next /\ UNCHANGED vsOpen
    BY <1>4, <2>0 DEF VoiceCancel
  <2>2. a \in Spoken /\ vsTask[a] # "none" /\ vsTask \in [Spoken -> TaskStates]
    BY <1>4, <2>0, StateIs DEF RestOK, Begun
  <2>3. /\ vsTask' \in [Spoken -> TaskStates] /\ vsTask'[a] \in {"clearing", "talking", "ended"}
        /\ vsLeft' \in [Spoken -> 0 .. MaxDeltas] /\ vsLeft'[a] = 0
        /\ \A u \in Spoken \ {a} : vsTask'[u] = vsTask[u] /\ vsLeft'[u] = vsLeft[u]
        /\ vsStray' \subseteq Spoken /\ vsCancelled' \in BOOLEAN /\ Quiet(a)'
    BY <2>1, <2>2, CancelIs
  <2>4. Kept(p) /\ \A i \in DOMAIN p : p[i].who # a
    BY WithoutKept
  <2>5. vsMain' \in Waiting
    BY <2>1 DEF Waiting
  <2>. HIDE DEF p
  <2>6. \A i \in DOMAIN p : p[i].who # Main /\ GoesOn(p[i].who)
    <3>1. \A i \in DOMAIN p : p[i].who # Main
      BY <1>1, <2>4, KeptWait DEF Waiting
    <3>. QED
      BY <2>2, <2>3, <2>4, <2>5, <3>1, OthersGoOn
  <2>7. LineOK' /\ \A u \in Spoken : Over(u)' => Over(u) \/ u = a
    <3>1. "done" \in Events /\ "done" # "delta" /\ GoesOn(Main)
      BY <2>5 DEF Events, GoesOn
    <3>2. Main \in Spoken \cup {Main} /\ a \in Spoken \cup {0}
      BY <2>2
    <3>. QED
      BY <2>1, <2>2, <2>4, <2>6, <3>1, <3>2, SendKeeps
  <2>8. \A u \in Spoken : Over(u)' => Quiet(u)'
    BY <2>3, <2>7, StateIs DEF Quiet
  <2>9. RestOK' /\ Begun'
    <3>1. /\ \A u \in Spoken : u > vsInputs' => vsTask'[u] = "none"
          /\ vsActive' # 0 => vsTask'[vsActive'] # "none"
      BY <1>1, <2>0, <2>2, <2>3, StateIs DEF Begun, Spoken
    <3>. QED
      BY <1>1, <2>1, <2>3, <3>1, StateIs DEF RestOK, Begun
  <2>. QED
    BY <2>7, <2>8, <2>9, PartsNext
<1>. QED
  BY <1>2, <1>3, <1>4

(* The client goes. *)
LEMMA DisconnectKeeps == ASSUME VInv, VoiceDisconnect PROVE VInv'
<1>1. Closes /\ vsActive' = 0 /\ UNCHANGED <<vsInputs, vsSeq>>
  BY DEF VoiceDisconnect
<1>2. /\ LineOK' /\ (\A t \in Spoken : Over(t)' => Over(t))
      /\ vsQueue' = <<>> /\ vsMain' = "closed" /\ vsOpen' = FALSE
  BY <1>1, CloseKeeps
<1>3. CASE vsActive = 0
  <2>1. UNCHANGED <<vsTurns, vsCancelled>>
    BY <1>3 DEF VoiceDisconnect
  <2>2. (\A t \in Spoken : Over(t)' => Quiet(t)') /\ RestOK' /\ Begun'
    BY <1>1, <1>2, <2>1, StateIs DEF Quiet, RestOK, Begun, vsTurns
  <2>. QED
    BY <1>2, <2>2, PartsNext
<1>4. CASE vsActive # 0
  <2>0. PICK a \in Spoken : a = vsActive
    BY <1>4, StateIs DEF RestOK
  <2>1. CancelTurn(a, vsTask)
    BY <1>4, <2>0 DEF VoiceDisconnect
  <2>2. a \in Spoken /\ vsTask[a] # "none" /\ vsTask \in [Spoken -> TaskStates]
    BY <1>4, <2>0, StateIs DEF RestOK, Begun
  <2>3. /\ vsTask' \in [Spoken -> TaskStates] /\ vsTask'[a] \in {"clearing", "talking", "ended"}
        /\ vsLeft' \in [Spoken -> 0 .. MaxDeltas] /\ vsLeft'[a] = 0
        /\ \A u \in Spoken \ {a} : vsTask'[u] = vsTask[u] /\ vsLeft'[u] = vsLeft[u]
        /\ vsStray' \subseteq Spoken /\ vsCancelled' \in BOOLEAN /\ Quiet(a)'
    BY <2>1, <2>2, CancelIs
  <2>4. \A u \in Spoken : Over(u)' => Quiet(u)'
    BY <1>2, <2>3, StateIs DEF Quiet
  <2>5. RestOK' /\ Begun'
    BY <1>1, <1>2, <2>2, <2>3, StateIs DEF RestOK, Begun
  <2>. QED
    BY <1>2, <2>4, <2>5, PartsNext
<1>. QED
  BY <1>3, <1>4

(* The first send is done: its sender goes on. *)
LEMMA SentKeeps == ASSUME VInv, VoiceSent PROVE VInv'
<1>. DEFINE p == Tail(vsQueue)
<1>1. /\ vsQueue # <<>> /\ UNCHANGED <<vsInputs, vsLeft, vsStray, vsCancelled, vsSeq>>
      /\ vsOpen
  BY StateIs DEF VoiceSent, Begun
<1>2. PICK who \in Spoken \cup {Main} : who = Head(vsQueue).who
  BY <1>1, TailKept, StateIs
<1>3. Kept(p) /\ \A i \in DOMAIN p : p[i].who # who
  BY <1>1, <1>2, TailKept
<1>4. IF who = Main THEN vsMain \in Waiting ELSE vsTask[who] \in Busy
  BY <1>1, <1>2, TailKept, StateIs
<1>. HIDE DEF p
<1>5. CASE who = Main
  <2>1. /\ IF vsMain = "ending" THEN Closes
           ELSE Sends(p) /\ vsMain' = "receiving" /\ UNCHANGED vsOpen
        /\ vsActive' = IF vsMain = "refusing" THEN vsActive ELSE 0
        /\ UNCHANGED vsTask
    BY <1>2, <1>5 DEF VoiceSent, p
  <2>2. vsActive' \in {vsActive, 0}
    BY <2>1
  <2>3. CASE vsMain = "ending"
    <3>1. LineOK' /\ (\A t \in Spoken : Over(t)' => Over(t))
          /\ vsQueue' = <<>> /\ vsMain' = "closed" /\ vsOpen' = FALSE
      BY <1>1, <2>1, <2>3, CloseKeeps
    <3>2. (\A t \in Spoken : Over(t)' => Quiet(t)') /\ RestOK' /\ Begun'
      BY <1>1, <2>1, <2>2, <3>1, StateIs DEF Quiet, RestOK, Begun
    <3>. QED
      BY <3>1, <3>2, PartsNext
  <2>4. CASE vsMain # "ending"
    <3>1. Sends(p) /\ vsMain' = "receiving" /\ UNCHANGED vsOpen
      BY <2>1, <2>4
    <3>2. \A i \in DOMAIN p : GoesOn(p[i].who)
      BY <1>3, <1>5, <2>1, KeptWait DEF GoesOn
    <3>3. LineOK' /\ (\A t \in Spoken : Over(t)' => Over(t))
      BY <1>1, <1>3, <3>1, <3>2, DropKeeps
    <3>4. (\A t \in Spoken : Over(t)' => Quiet(t)') /\ RestOK' /\ Begun'
      BY <1>1, <2>1, <2>2, <3>1, <3>3, StateIs DEF Quiet, RestOK, Begun
    <3>. QED
      BY <3>3, <3>4, PartsNext
  <2>. QED
    BY <2>3, <2>4
<1>6. CASE who # Main
  <2>. DEFINE state == CASE vsTask[who] = "opening"   -> "asking"
                         [] vsTask[who] = "talking"   -> "talking"
                         [] vsTask[who] = "finishing" -> "closing"
                         [] vsTask[who] = "failing"   -> "clearing"
                         [] vsTask[who] \in {"closing", "undoing"} -> "ended"
  <2>1. /\ Sends(p) /\ Becomes(who, state)
        /\ vsActive' = IF vsTask[who] \in {"closing", "undoing"} THEN 0 ELSE vsActive
        /\ UNCHANGED <<vsMain, vsOpen>>
    BY <1>2, <1>6 DEF VoiceSent, p
  <2>2. /\ who \in Spoken /\ state \in TaskStates /\ state # "none"
        /\ state = "asking" => vsTask[who] = "opening"
        /\ state = "talking" => vsTask[who] = "talking"
        /\ state # "opening"
    <3>1. who \in Spoken
      BY <1>6
    <3>. QED
      BY <1>4, <1>6, <3>1 DEF Busy, TaskStates
  <2>. HIDE DEF state
  <2>3. /\ vsTask' \in [Spoken -> TaskStates] /\ vsTask'[who] = state
        /\ \A u \in Spoken \ {who} : vsTask'[u] = vsTask[u]
    BY <2>1, <2>2, BecomesIs
  <2>4. \A i \in DOMAIN p : GoesOn(p[i].who)
    BY <1>3, <2>1, <2>2, <2>3, OthersGoOn
  <2>5. LineOK' /\ (\A t \in Spoken : Over(t)' => Over(t))
    BY <1>1, <1>3, <2>1, <2>4, DropKeeps
  <2>6. \A t \in Spoken : Over(t)' => Quiet(t)'
    BY <1>1, <2>2, <2>3, <2>5, StateIs DEF Quiet
  <2>7. RestOK'
    BY <1>1, <2>1, <2>3, StateIs DEF RestOK
  <2>8. \A t \in Spoken : t > vsInputs => vsTask'[t] = "none"
    BY <1>4, <1>6, <2>2, <2>3, StateIs DEF Begun, Busy
  <2>9. vsActive' # 0 => vsTask'[vsActive'] # "none"
    BY <2>1, <2>2, <2>3, StateIs DEF Begun, RestOK
  <2>. QED
    BY <1>1, <2>1, <2>5, <2>6, <2>7, <2>8, <2>9, PartsNext DEF Begun
<1>. QED
  BY <1>5, <1>6

(* One task goes on without a send: it had none under way, or still waits, and
   does not come to speak of a turn that has ended. *)
LEMMA TaskKeeps ==
  ASSUME VInv, NEW t \in Spoken, NEW state \in TaskStates, Becomes(t, state),
         UNCHANGED <<vsOpen, vsInputs, vsMain, vsStray, vsCancelled, vsSeq, vsQueue, vsWire>>,
         vsActive' \in {vsActive, 0}, vsLeft' \in [Spoken -> 0 .. MaxDeltas],
         \A u \in Spoken \ {t} : vsLeft'[u] = vsLeft[u],
         vsTask[t] # "none", state \notin {"none", "opening", "asking"},
         state = "talking" => vsTask[t] = "asking",
         \A i \in DOMAIN vsQueue : vsQueue[i].who # t
  PROVE  VInv'
<1>1. /\ vsTask' \in [Spoken -> TaskStates] /\ vsTask'[t] = state
      /\ \A u \in Spoken \ {t} : vsTask'[u] = vsTask[u]
  BY BecomesIs
<1>2. \A i \in DOMAIN vsQueue : GoesOn(vsQueue[i].who)
  BY <1>1, AllKept, OthersGoOn
<1>3. LineOK' /\ \A u \in Spoken : Over(u)' => Over(u)
  BY <1>2, StillKeeps
<1>4. \A u \in Spoken : Over(u)' => Quiet(u)'
  BY <1>1, <1>3, StateIs DEF Quiet
<1>5. RestOK'
  BY <1>1, StateIs DEF RestOK
<1>6. Begun'
  BY <1>1, StateIs DEF Begun, RestOK
<1>. QED
  BY <1>3, <1>4, <1>5, <1>6, PartsNext

(* One task goes on and sends: a part of its answer only if its turn has not
   ended. *)
LEMMA TaskSendKeeps ==
  ASSUME VInv, NEW t \in Spoken, NEW state \in Busy, vsOpen,
         vsTask' = [vsTask EXCEPT ![t] = state],
         NEW p, Kept(p), \A i \in DOMAIN p : p[i].who # t,
         NEW what \in Events, SendEvent(p, t, what, t),
         UNCHANGED <<vsOpen, vsInputs, vsMain, vsStray, vsCancelled, vsActive>>,
         vsLeft' \in [Spoken -> 0 .. MaxDeltas], \A u \in Spoken \ {t} : vsLeft'[u] = vsLeft[u],
         vsTask[t] # "none", state # "opening", state = "talking" => ~Over(t),
         what = "delta" => ~Over(t), what = "done" => state # "talking"
  PROVE  VInv'
<1>0. state \in TaskStates /\ state \notin {"none", "asking"}
  BY DEF Busy, TaskStates
<1>1. /\ vsTask' \in [Spoken -> TaskStates] /\ vsTask'[t] = state
      /\ \A u \in Spoken \ {t} : vsTask'[u] = vsTask[u]
  BY <1>0, BecomesIs DEF Becomes
<1>2. \A i \in DOMAIN p : p[i].who # t /\ GoesOn(p[i].who)
  BY <1>1, OthersGoOn
<1>3. LineOK' /\ \A u \in Spoken : Over(u)' => Over(u) \/ (what = "done" /\ t = u)
  <2>1. GoesOn(t) /\ t \in Spoken \cup {Main} /\ t \in Spoken \cup {0}
    BY <1>1, StateIs DEF GoesOn
  <2>. QED
    BY <1>2, <2>1, SendKeeps
<1>4. \A u \in Spoken : Over(u)' => Quiet(u)'
  BY <1>0, <1>1, <1>3, StateIs DEF Quiet
<1>5. RestOK'
  BY <1>1, StateIs DEF RestOK
<1>6. Begun'
  BY <1>0, <1>1, StateIs DEF Begun, RestOK
<1>. QED
  BY <1>3, <1>4, <1>5, <1>6, PartsNext

(* The chat has answered. *)
LEMMA AnsweredKeeps ==
  ASSUME VInv, NEW t \in Spoken, NEW n \in 0 .. MaxDeltas, VoiceAnswered(t, n)
  PROVE  VInv'
<1>1. /\ vsTask[t] = "asking" /\ Becomes(t, "talking") /\ vsLeft' = [vsLeft EXCEPT ![t] = n]
      /\ UNCHANGED <<vsOpen, vsInputs, vsMain, vsStray, vsActive, vsCancelled, vsSeq, vsQueue, vsWire>>
  BY DEF VoiceAnswered
<1>2. /\ vsLeft' \in [Spoken -> 0 .. MaxDeltas]
      /\ \A u \in Spoken \ {t} : vsLeft'[u] = vsLeft[u]
  BY <1>1, StateIs DEF RestOK
<1>3. \A i \in DOMAIN vsQueue : vsQueue[i].who # t
  BY <1>1, StateIs DEF Busy
<1>4. "talking" \in TaskStates
  BY DEF TaskStates
<1>. QED
  BY <1>1, <1>2, <1>3, <1>4, TaskKeeps

(* The turn speaks. *)
LEMMA SpeakKeeps == ASSUME VInv, NEW t \in Spoken, VoiceSpeak(t) PROVE VInv'
<1>1. /\ vsTask[t] = "talking" /\ vsOpen /\ \A i \in DOMAIN vsQueue : vsQueue[i].who # t
      /\ UNCHANGED <<vsOpen, vsInputs, vsMain, vsStray, vsActive, vsCancelled>>
  BY DEF VoiceSpeak, Sending
<1>2. vsLeft \in [Spoken -> 0 .. MaxDeltas] /\ vsTask \in [Spoken -> TaskStates]
  BY StateIs DEF RestOK
<1>3. CASE vsLeft[t] > 0 /\ vsCancelled
  <2>1. Becomes(t, "ended") /\ UNCHANGED <<vsLeft, vsSeq, vsQueue, vsWire>>
    BY <1>3 DEF VoiceSpeak
  <2>2. "ended" \in TaskStates
    BY DEF TaskStates
  <2>. QED
    BY <1>1, <1>2, <2>1, <2>2, TaskKeeps
<1>4. CASE vsLeft[t] > 0 /\ ~vsCancelled
  <2>1. /\ SendEvent(vsQueue, t, "delta", t) /\ vsLeft' = [vsLeft EXCEPT ![t] = @ - 1]
        /\ UNCHANGED vsTask
    BY <1>4 DEF VoiceSpeak
  <2>2. vsTask' = [vsTask EXCEPT ![t] = "talking"]
    BY <1>1, <1>2, <2>1
  <2>3. ~Over(t)
    BY <1>1, <1>4, StateIs DEF Quiet
  <2>4. /\ vsLeft' \in [Spoken -> 0 .. MaxDeltas]
        /\ \A u \in Spoken \ {t} : vsLeft'[u] = vsLeft[u]
    <3>1. vsLeft[t] - 1 \in 0 .. MaxDeltas
      BY <1>2, <1>4, VoiceAssumption
    <3>. QED
      BY <1>2, <2>1, <3>1
  <2>5. "talking" \in Busy /\ "delta" \in Events
    BY DEF Busy, Events
  <2>. QED
    BY <1>1, <2>1, <2>2, <2>3, <2>4, <2>5, AllKept, TaskSendKeeps
<1>5. CASE ~(vsLeft[t] > 0)
  <2>1. SendEvent(vsQueue, t, "final", t) /\ Becomes(t, "finishing") /\ UNCHANGED vsLeft
    BY <1>5 DEF VoiceSpeak
  <2>2. "finishing" \in Busy /\ "final" \in Events
    BY DEF Busy, Events
  <2>. QED
    BY <1>1, <1>2, <2>1, <2>2, AllKept, TaskSendKeeps DEF Becomes
<1>. QED
  BY <1>3, <1>4, <1>5

(* The turn ends. *)
LEMMA FinishKeeps == ASSUME VInv, NEW t \in Spoken, VoiceFinish(t) PROVE VInv'
<1>1. /\ vsTask[t] = "closing" /\ vsOpen /\ \A i \in DOMAIN vsQueue : vsQueue[i].who # t
      /\ SendEvent(vsQueue, t, "done", t)
      /\ UNCHANGED <<vsOpen, vsInputs, vsMain, vsTurns, vsActive, vsCancelled>>
  BY DEF VoiceFinish, Sending
<1>2. /\ vsLeft' \in [Spoken -> 0 .. MaxDeltas] /\ UNCHANGED <<vsLeft, vsStray>>
      /\ vsTask' = [vsTask EXCEPT ![t] = "closing"]
  BY <1>1, StateIs DEF RestOK, vsTurns
<1>3. "closing" \in Busy /\ "done" \in Events
  BY DEF Busy, Events
<1>. QED
  BY <1>1, <1>2, <1>3, AllKept, TaskSendKeeps

(* The turn fails: what it was sending is given up. *)
LEMMA FailsKeeps == ASSUME VInv, NEW t \in Spoken, VoiceTurnFails(t) PROVE VInv'
<1>1. /\ vsTask[t] # "none" /\ vsOpen /\ Becomes(t, "failing")
      /\ SendEvent(Without(vsQueue, t), t, "error", t)
      /\ UNCHANGED <<vsOpen, vsInputs, vsMain, vsLeft, vsStray, vsActive, vsCancelled>>
  BY DEF VoiceTurnFails
<1>2. vsLeft' \in [Spoken -> 0 .. MaxDeltas]
  BY <1>1, StateIs DEF RestOK
<1>3. "failing" \in Busy /\ "error" \in Events
  BY DEF Busy, Events
<1>. QED
  BY <1>1, <1>2, <1>3, WithoutKept, TaskSendKeeps DEF Becomes

(* With the client gone, the turn ends. *)
LEMMA GivesUpKeeps == ASSUME VInv, NEW t \in Spoken, VoiceGivesUp(t) PROVE VInv'
<1>1. /\ vsTask[t] # "none" /\ ~vsOpen /\ Becomes(t, "ended") /\ vsActive' = 0
      /\ UNCHANGED <<vsOpen, vsInputs, vsMain, vsLeft, vsStray, vsCancelled, vsSeq, vsQueue, vsWire>>
  BY DEF VoiceGivesUp
<1>2. vsLeft' \in [Spoken -> 0 .. MaxDeltas] /\ \A i \in DOMAIN vsQueue : FALSE
  BY <1>1, StateIs DEF RestOK, Begun
<1>3. "ended" \in TaskStates
  BY DEF TaskStates
<1>. QED
  BY <1>1, <1>2, <1>3, TaskKeeps

(* The cleanup of a turn that has failed cancels what is active, which may be
   another turn, and sends its end. *)
LEMMA ClearKeeps == ASSUME VInv, NEW t \in Spoken, VoiceClear(t) PROVE VInv'
<1>. DEFINE undoing == [vsTask EXCEPT ![t] = "undoing"]
<1>1. /\ vsTask[t] = "clearing" /\ vsOpen /\ \A i \in DOMAIN vsQueue : vsQueue[i].who # t
      /\ UNCHANGED <<vsOpen, vsInputs, vsMain, vsActive>>
  BY StateIs DEF VoiceClear, Busy
<1>2. vsLeft \in [Spoken -> 0 .. MaxDeltas] /\ vsTask \in [Spoken -> TaskStates]
      /\ undoing \in [Spoken -> TaskStates] /\ undoing[t] = "undoing"
      /\ \A u \in Spoken \ {t} : undoing[u] = vsTask[u]
  BY StateIs DEF RestOK, TaskStates
<1>3. CASE vsActive = 0
  <2>1. Becomes(t, "ended") /\ UNCHANGED <<vsLeft, vsStray, vsCancelled, vsSeq, vsQueue, vsWire>>
    BY <1>3 DEF VoiceClear
  <2>2. "ended" \in TaskStates
    BY DEF TaskStates
  <2>. QED
    BY <1>1, <1>2, <2>1, <2>2, TaskKeeps
<1>4. CASE vsActive = t
  <2>1. t # 0
    BY StateIs
  <2>2. /\ vsTask' = undoing /\ vsCancelled' = TRUE /\ UNCHANGED <<vsLeft, vsStray>>
        /\ SendEvent(Without(vsQueue, t), t, "done", t)
    BY <1>4, <2>1 DEF VoiceClear
  <2>3. LineOK' /\ \A u \in Spoken : Over(u)' => Over(u) \/ t = u
    <3>1. "done" \in Events /\ "done" # "delta" /\ GoesOn(t)
          /\ t \in Spoken \cup {Main} /\ t \in Spoken \cup {0}
      BY <1>2, <2>2, StateIs DEF Events, GoesOn, Busy
    <3>2. \A i \in DOMAIN Without(vsQueue, t) :
            Without(vsQueue, t)[i].who # t /\ GoesOn(Without(vsQueue, t)[i].who)
      BY <1>1, <1>2, <2>2, WithoutKept, OthersGoOn
    <3>. QED
      BY <2>2, <3>1, <3>2, WithoutKept, SendKeeps
  <2>4. \A u \in Spoken : Over(u)' => Quiet(u)'
    BY <1>2, <2>2, <2>3, StateIs DEF Quiet
  <2>5. RestOK'
    BY <1>1, <1>2, <2>2, StateIs DEF RestOK
  <2>6. Begun'
    BY <1>1, <1>2, <2>2, StateIs DEF Begun, RestOK
  <2>. QED
    BY <2>3, <2>4, <2>5, <2>6, PartsNext
<1>5. CASE vsActive \notin {0, t}
  <2>1. PICK a \in Spoken : a = vsActive /\ a # t /\ vsTask[a] # "none"
    BY <1>5, StateIs DEF RestOK, Begun
  <2>. DEFINE p == Without(vsQueue, a)
  <2>2. CancelTurn(a, undoing) /\ SendEvent(p, t, "done", a)
    BY <1>5, <2>1 DEF VoiceClear
  <2>3. /\ vsTask' \in [Spoken -> TaskStates] /\ vsTask'[a] \in {"clearing", "talking", "ended"}
        /\ vsLeft' \in [Spoken -> 0 .. MaxDeltas] /\ vsLeft'[a] = 0
        /\ \A u \in Spoken \ {a} : vsTask'[u] = undoing[u] /\ vsLeft'[u] = vsLeft[u]
        /\ vsStray' \subseteq Spoken /\ vsCancelled' \in BOOLEAN /\ Quiet(a)'
    <3>. HIDE DEF undoing
    <3>. QED
      BY <1>2, <2>1, <2>2, CancelIs
  <2>4. Kept(p) /\ \A i \in DOMAIN p : p[i].who # a
    BY WithoutKept
  <2>5. vsTask'[t] = "undoing" /\ \A u \in Spoken \ {a, t} : vsTask'[u] = vsTask[u]
    BY <1>2, <2>1, <2>3
  <2>. HIDE DEF p, undoing
  <2>6. \A i \in DOMAIN p : p[i].who # t /\ GoesOn(p[i].who)
    <3>1. \A i \in DOMAIN p : p[i].who # t
      BY <1>1, <2>4, KeptWait, StateIs DEF Busy
    <3>. QED
      BY <1>1, <2>4, <2>5, <3>1, KeptWait DEF GoesOn
  <2>7. LineOK' /\ \A u \in Spoken : Over(u)' => Over(u) \/ u = a
    <3>1. "done" \in Events /\ "done" # "delta" /\ GoesOn(t)
          /\ t \in Spoken \cup {Main} /\ a \in Spoken \cup {0}
      BY <2>5, StateIs DEF Events, GoesOn, Busy
    <3>. QED
      BY <2>2, <2>4, <2>6, <3>1, SendKeeps
  <2>8. \A u \in Spoken : Over(u)' => Quiet(u)'
    BY <2>1, <2>3, <2>5, <2>7, StateIs DEF Quiet
  <2>9. RestOK'
    BY <1>1, <2>3, StateIs DEF RestOK
  <2>10. \A u \in Spoken : u > vsInputs => vsTask'[u] = "none"
    BY <1>1, <2>1, <2>5, StateIs DEF Begun
  <2>11. vsTask'[vsActive'] # "none"
    BY <1>1, <2>1, <2>3
  <2>. QED
    BY <1>1, <2>7, <2>8, <2>9, <2>10, <2>11, PartsNext DEF Begun
<1>. QED
  BY <1>3, <1>4, <1>5

(* The invariant holds at first. *)
LEMMA InitVInv == VoiceInit => VInv
<1>. SUFFICES ASSUME VoiceInit PROVE VInv
  OBVIOUS
<1>1. /\ vsQueue = <<>> /\ vsSeq = 1 /\ vsActive = 0 /\ vsOpen = TRUE
      /\ vsTask = [t \in Spoken |-> "none"]
      /\ vsWire = [last |-> 0, ordered |-> TRUE, done |-> {}, late |-> FALSE]
  BY DEF VoiceInit
<1>2. VoiceTypeOK
  <2>1. "none" \in TaskStates /\ 0 \in 0 .. MaxDeltas /\ 0 \in 0 .. MaxInputs
    BY VoiceAssumption DEF TaskStates
  <2>2. vsWire \in [last : Nat \cup {-1}, ordered : BOOLEAN, done : SUBSET Spoken, late : BOOLEAN]
    BY <1>1
  <2>3. vsTask \in [Spoken -> TaskStates] /\ vsLeft \in [Spoken -> 0 .. MaxDeltas]
    BY <2>1 DEF VoiceInit
  <2>4. vsInputs \in 0 .. MaxInputs
    BY <2>1 DEF VoiceInit
  <2>5. vsQueue \in Seq([who : Spoken \cup {Main}, what : Events, turn : Spoken \cup {0}, seq : Nat])
    BY <1>1
  <2>6. /\ vsOpen = TRUE /\ vsCancelled = FALSE /\ vsMain = "receiving" /\ vsStray = {}
    BY DEF VoiceInit
  <2>. QED
    BY <1>1, <2>2, <2>3, <2>4, <2>5, <2>6 DEF VoiceTypeOK
<1>3. InLine /\ NoDeltaBehind /\ OneSendEach /\ WireInOrder /\ NothingSaidAfterDone
  BY <1>1 DEF InLine, NoDeltaBehind, OneSendEach, WireInOrder, NothingSaidAfterDone
<1>4. OverIsSilent /\ Begun
  BY <1>1 DEF OverIsSilent, Over, Begun
<1>. QED
  BY <1>2, <1>3, <1>4 DEF VInv

(* And is kept by every step. *)
LEMMA NextVInv == VInv /\ [VoiceNext]_vsVars => VInv'
<1>. SUFFICES ASSUME VInv, [VoiceNext]_vsVars PROVE VInv'
  OBVIOUS
<1>1. ASSUME NEW t \in Spoken, VoiceTaskStep(t) PROVE VInv'
  BY <1>1, AnsweredKeeps, SpeakKeeps, FinishKeeps, FailsKeeps, ClearKeeps, GivesUpKeeps
     DEF VoiceTaskStep
<1>2. CASE VoiceCancel("cancelling") \/ VoiceCancel("ending")
  BY <1>2, CancelKeeps
<1>3. CASE UNCHANGED vsVars
  BY <1>3 DEF vsVars, vsTurns, VInv, VoiceTypeOK, InLine, NoDeltaBehind, OverIsSilent, Over,
              OneSendEach, Begun, WireInOrder, NothingSaidAfterDone
<1>. QED
  BY <1>1, <1>2, <1>3, RefuseKeeps, InputKeeps, DisconnectKeeps, SentKeeps DEF VoiceNext

(* The state of a session stays what it is declared to be. *)
THEOREM VoiceTypeCorrect == VoiceSpec => []VoiceTypeOK
<1>1. VInv => VoiceTypeOK
  BY DEF VInv
<1>. QED
  BY <1>1, InitVInv, NextVInv, PTL DEF VoiceSpec

(* WireInOrder: the client receives the events in the order of their numbers
   (_send_event), for any number of inputs and of parts. *)
THEOREM EventsInOrder == VoiceSpec => []WireInOrder
<1>1. VInv => WireInOrder
  BY DEF VInv
<1>. QED
  BY <1>1, InitVInv, NextVInv, PTL DEF VoiceSpec

(* NothingSaidAfterDone: no part of an answer follows the end of its turn
   (_cancel_active_turn, _process_turn). *)
THEOREM DoneIsTheEnd == VoiceSpec => []NothingSaidAfterDone
<1>1. VInv => NothingSaidAfterDone
  BY DEF VInv
<1>. QED
  BY <1>1, InitVInv, NextVInv, PTL DEF VoiceSpec

----------------------------------------------------------------------------
(* All parts together: a step is one of one part. *)
LEMMA ProgressSteps ==
  [ProgressNext]_progressVars =>
    [JobsNext]_jbVars /\ [FeedbackNext]_fbVars /\ [VoiceNext]_vsVars
BY DEF ProgressNext, progressVars

(* ProgressTypeOK: each part keeps to its types, whichever runs. *)
THEOREM ProgressTypeCorrect == ProgressSpec => []ProgressTypeOK
<1>1. ProgressInit => JbInit /\ FeedbackInit /\ VoiceInit
  BY DEF ProgressInit
<1>2. FInv /\ [FeedbackNext]_fbVars => FInv'
  BY NextFInv
<1>3. FInv /\ JInv /\ VInv => ProgressTypeOK
  BY DEF ProgressTypeOK, FInv, JInv, VInv
<1>. QED
  BY <1>1, <1>2, <1>3, ProgressSteps, InitFInv, InitJInv, NextJInv, InitVInv, NextVInv, PTL
     DEF ProgressSpec
=============================================================================
