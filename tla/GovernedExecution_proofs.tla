---------------------- MODULE GovernedExecution_proofs ----------------------
(***************************************************************************)
(* Theorems about GovernedExecution for any number of commands, approve    *)
(* and reject requests and restarts.                                       *)
(*                                                                         *)
(* TypeCorrect needs that a coroutine past its first look has a recorded   *)
(* approval, and one past the grant an execution (CoroutineHas), that a    *)
(* submission that has begun has its approval (CreatedIsBound) and that    *)
(* the index of the decision records names records (IndexIsRecorded).      *)
(***************************************************************************)
EXTENDS GovernedExecution, TLAPS

Recorded(a) == approvals[a] # Store!NoRecord

(* uuid4 gives no id twice: what it has not returned names no record. *)
OnlyIssued ==
  \A a \in Approvals \ issued : approvals[a] = Store!NoRecord /\ disk[a] = Store!NoRecord

CoroutineHas ==
  \A r \in Approvers :
    /\ approver[r].pc \in {"checked", "decided", "recorded"} =>
         approver[r].approval \in Approvals /\ Recorded(approver[r].approval)
    /\ approver[r].pc \in {"decided", "recorded", "cleared", "running", "logging", "finished"} =>
         approver[r].exec \in Executions
    /\ approver[r].pc = "finished" => approver[r].result \in Terminal

ThreadHas ==
  \A t \in Rejecters : rejecter[t].pc = "decided" => rejecter[t].approval \in Approvals

CreatedIsBound ==
  \A e \in Executions : submission[e] = "created" =>
    \E a \in Approvals : Recorded(a) /\ approvals[a].exec = e

IndexIsRecorded ==
  \A e \in Executions : decisionOf[e] # NoApproval => decisions[decisionOf[e]] # NoDecision

TInv == TypeOK /\ OnlyIssued /\ CoroutineHas /\ ThreadHas /\ CreatedIsBound /\ IndexIsRecorded

-----------------------------------------------------------------------------
(* What the operations of the store keep for their callers. *)
StoreKeeps ==
  /\ Store!TypeOK' /\ OnlyIssued'
  /\ \A a \in Approvals : Recorded(a) => Recorded(a)' /\ approvals'[a].exec = approvals[a].exec

(* Expiry gives a store with the same records. *)
LEMMA CurrentKeeps ==
  ASSUME Store!TypeOK
  PROVE  /\ Store!Current \in Store!Store
         /\ \A a \in Approvals :
              /\ Store!Current[a] = Store!NoRecord <=> approvals[a] = Store!NoRecord
              /\ Recorded(a) => Store!Current[a].exec = approvals[a].exec
  BY DEF Store!TypeOK, Store!Current, Store!Expired, Store!Store, Store!Record, Store!NoRecord,
         Recorded

(* Committing a store that has the same records and perhaps a new one. *)
LEMMA CommitKeeps ==
  ASSUME Store!TypeOK, OnlyIssued, NEW new \in Store!Store, Store!Commit(new),
         aged' \subseteq issued', issued \subseteq issued', issued' \subseteq Approvals,
         \A a \in Approvals \ issued' : new[a] = Store!NoRecord,
         \A a \in Approvals : Recorded(a) =>
           new[a] # Store!NoRecord /\ new[a].exec = approvals[a].exec
  PROVE  StoreKeeps /\ approvals' = new
<1>1. approvals' = new
  BY DEF Store!Commit
<1>2. disk' \in {disk, Store!Current, new}
  BY DEF Store!Commit, Store!Written
<1>3. Store!TypeOK'
  BY <1>1, <1>2, CurrentKeeps DEF Store!TypeOK
<1>4. OnlyIssued'
  BY <1>1, <1>2, CurrentKeeps DEF OnlyIssued
<1>. QED
  BY <1>1, <1>3, <1>4 DEF StoreKeeps, Recorded

(* Reading the store. *)
LEMMA TouchKeeps ==
  ASSUME Store!TypeOK, OnlyIssued, Store!Touch
  PROVE  StoreKeeps /\ approvals' = Store!Current
<1>1. \A a \in Approvals \ issued : Store!Current[a] = Store!NoRecord
  BY CurrentKeeps DEF OnlyIssued
<1>. QED
  BY <1>1, CurrentKeeps, CommitKeeps DEF Store!Touch, Store!TypeOK, Recorded

(* Creating an approval of e. *)
LEMMA CreateKeeps ==
  ASSUME Store!TypeOK, OnlyIssued,
         NEW e \in Executions, NEW p \in Payloads, NEW a \in Approvals, Store!Create(e, p, a)
  PROVE  StoreKeeps /\ Recorded(a)' /\ approvals'[a].exec = e
<1>1. CASE a \in Store!Matching(Store!Current, e, p) /\ Store!Touch
  <2>1. StoreKeeps /\ approvals' = Store!Current
    BY <1>1, TouchKeeps
  <2>2. Store!Current[a].status \in {"pending", "approved"} /\ Store!Current[a].exec = e
    BY <1>1 DEF Store!Matching
  <2>. QED
    BY <2>1, <2>2 DEF Recorded, Store!NoRecord
<1>2. CASE /\ a \in Approvals \ issued
           /\ issued' = issued \cup {a}
           /\ Store!Commit([Store!Current EXCEPT ![a] =
                             [status |-> "pending", exec |-> e, payload |-> p]])
           /\ UNCHANGED aged
  <2>. DEFINE fresh == [status |-> "pending", exec |-> e, payload |-> p]
              new == [Store!Current EXCEPT ![a] = fresh]
  <2>1. fresh \in Store!Record /\ fresh # Store!NoRecord
    BY DEF Store!Record, Store!NoRecord
  <2>2. new \in Store!Store /\ new[a] = fresh
    BY <2>1, CurrentKeeps DEF Store!Store
  <2>3. \A b \in Approvals \ {a} : new[b] = Store!Current[b]
    BY CurrentKeeps DEF Store!Store
  <2>4. ~Recorded(a)
    BY <1>2 DEF OnlyIssued, Recorded
  <2>5. \A b \in Approvals : Recorded(b) =>
          new[b] # Store!NoRecord /\ new[b].exec = approvals[b].exec
    BY <2>3, <2>4, CurrentKeeps DEF Recorded
  <2>6. \A b \in Approvals \ issued' : new[b] = Store!NoRecord
    BY <1>2, <2>3, CurrentKeeps DEF OnlyIssued
  <2>7. StoreKeeps /\ approvals' = new
    <3>. HIDE DEF new
    <3>. QED
      BY <1>2, <2>2, <2>5, <2>6, CommitKeeps DEF Store!TypeOK, new
  <2>. QED
    BY <2>1, <2>2, <2>7 DEF Recorded
<1>. QED
  BY <1>1, <1>2 DEF Store!Create

(* Deciding a pending approval. *)
LEMMA DecideKeeps ==
  ASSUME Store!TypeOK, OnlyIssued, NEW a \in Approvals, Store!Approve(a) \/ Store!Reject(a)
  PROVE  StoreKeeps
<1>1. ASSUME NEW decision \in {"approved", "rejected"},
             Store!Commit(IF Store!Current[a].status = "pending"
                            THEN [Store!Current EXCEPT ![a].status = decision]
                            ELSE Store!Current),
             UNCHANGED <<aged, issued>>
      PROVE  StoreKeeps
  <2>. DEFINE new == IF Store!Current[a].status = "pending"
                       THEN [Store!Current EXCEPT ![a].status = decision] ELSE Store!Current
  <2>1. new \in Store!Store
    BY CurrentKeeps DEF Store!Store, Store!Record, Store!NoRecord
  <2>2. \A b \in Approvals \ issued' : new[b] = Store!NoRecord
    BY <1>1, CurrentKeeps DEF OnlyIssued, Store!Store, Store!NoRecord
  <2>3. \A b \in Approvals : Recorded(b) =>
          new[b] # Store!NoRecord /\ new[b].exec = approvals[b].exec
    BY CurrentKeeps DEF Store!Store, Store!Record, Store!NoRecord, Recorded
  <2>. QED
    BY <1>1, <2>1, <2>2, <2>3, CommitKeeps DEF Store!TypeOK
<1>. QED
  BY <1>1 DEF Store!Approve, Store!Reject

(* Time passes for an approval. *)
LEMMA AgeKeeps ==
  ASSUME Store!TypeOK, OnlyIssued, NEW a \in Approvals, Store!Age(a)
  PROVE  StoreKeeps
  BY DEF Store!TypeOK, OnlyIssued, Store!Age, StoreKeeps, Recorded

(* A restart may lose records, but invents none. *)
LEMMA RestartKeeps ==
  ASSUME Store!TypeOK, OnlyIssued, Store!Restart
  PROVE  Store!TypeOK' /\ OnlyIssued'
<1>1. PICK loaded \in {disk, Store!Empty} :
        /\ approvals' = Store!Expired(loaded)
        /\ disk' \in Store!Written(disk, loaded, Store!Expired(loaded))
        /\ UNCHANGED <<aged, issued>>
  BY DEF Store!Restart
<1>2. loaded \in Store!Store /\ \A a \in Approvals \ issued : loaded[a] = Store!NoRecord
  BY DEF Store!TypeOK, Store!Empty, Store!Store, OnlyIssued
<1>3. /\ Store!Expired(loaded) \in Store!Store
      /\ \A a \in Approvals \ issued : Store!Expired(loaded)[a] = Store!NoRecord
  BY <1>2 DEF Store!Expired, Store!Store, Store!Record, Store!NoRecord
<1>4. disk' \in {disk, Store!Expired(loaded)}
  BY <1>1 DEF Store!Written
<1>. QED
  BY <1>1, <1>3, <1>4 DEF Store!TypeOK, OnlyIssued

(* Leaving the store alone. *)
LEMMA IdleKeeps ==
  ASSUME Store!TypeOK, OnlyIssued, UNCHANGED storeVars
  PROVE  StoreKeeps
  BY DEF storeVars, StoreKeeps, OnlyIssued, Recorded, Store!TypeOK

-----------------------------------------------------------------------------
(* The registry's operations keep its shape. *)
LEMMA RegisterTyped ==
  ASSUME TypeOK, NEW e \in Executions, NEW state \in {"NONE", "EXECUTING", "BLOCKED"},
         NEW a \in Approvals \cup {NoApproval}, Register(e, state, a)
  PROVE  registry' \in Entries /\ registryFile' \in Entries \cup {Torn}
<1>. DEFINE old == registry[e]
            entry == [state    |-> IF state = "NONE" /\ old # NoEntry THEN old.state ELSE state,
                      approval |-> IF a = NoApproval /\ old # NoEntry THEN old.approval ELSE a]
<1>1. entry \in Entry
  BY DEF TypeOK, Entries, Entry, NoEntry, Terminal
<1>. QED
  BY <1>1 DEF TypeOK, Entries, Register, Put

(* Blocking, completing or failing an execution. *)
LEMMA SetStateTyped ==
  ASSUME TypeOK, NEW e \in Executions, NEW state \in Terminal, SetState(e, state)
  PROVE  registry' \in Entries /\ registryFile' \in Entries \cup {Torn}
<1>. DEFINE entry == [state    |-> state,
                      approval |-> IF registry[e] = NoEntry THEN NoApproval
                                                            ELSE registry[e].approval]
<1>1. entry \in Entry
  BY DEF TypeOK, Entries, Entry, NoEntry, Terminal
<1>. QED
  BY <1>1 DEF TypeOK, Entries, SetState, Put

(* So do those of the decision records. *)
LEMMA RecordDecisionTyped ==
  ASSUME TypeOK, IndexIsRecorded, NEW a \in Approvals, NEW accepted \in BOOLEAN,
         RecordDecision(a, accepted)
  PROVE  /\ decisions' \in [Approvals -> Decision \cup {NoDecision}]
         /\ decisionOf' \in [Executions -> Approvals \cup {NoApproval}]
         /\ IndexIsRecorded'
<1>1. CASE decisions[a] # NoDecision
  BY <1>1 DEF RecordDecision, decisionVars, TypeOK, IndexIsRecorded
<1>2. CASE decisions[a] = NoDecision
  <2>. DEFINE made == [accepted |-> accepted,
                       result |-> IF accepted THEN "unknown" ELSE "not_executed"]
  <2>1. made \in Decision /\ made # NoDecision
    BY DEF Decision, NoDecision
  <2>2. /\ decisions' = [decisions EXCEPT ![a] = made]
        /\ decisionOf' = [decisionOf EXCEPT ![approvals[a].exec] = a]
    BY <1>2 DEF RecordDecision
  <2>. HIDE DEF made
  <2>3. \A e \in Executions : decisionOf'[e] \in {decisionOf[e], a}
    BY <2>2 DEF TypeOK
  <2>. QED
    BY <2>1, <2>2, <2>3 DEF TypeOK, IndexIsRecorded
<1>. QED
  BY <1>1, <1>2

(* Recording an outcome on the decision the index names. *)
LEMMA RecordOutcomeTyped ==
  ASSUME TypeOK, IndexIsRecorded, NEW e \in Executions, NEW state \in Terminal,
         RecordOutcome(e, state)
  PROVE  /\ decisions' \in [Approvals -> Decision \cup {NoDecision}]
         /\ decisionOf' \in [Executions -> Approvals \cup {NoApproval}]
         /\ IndexIsRecorded'
<1>. DEFINE a == decisionOf[e]
<1>1. CASE a = NoApproval
  BY <1>1 DEF RecordOutcome, TypeOK, IndexIsRecorded
<1>2. CASE a # NoApproval
  <2>1. a \in Approvals /\ decisions[a] \in Decision
    BY <1>2 DEF TypeOK, IndexIsRecorded
  <2>2. PICK result \in {"fail", "success", "not_executed"} :
          decisions' = [decisions EXCEPT ![a].result = result]
    BY <1>2 DEF RecordOutcome, Terminal
  <2>3. /\ decisions'[a] = [decisions[a] EXCEPT !.result = result]
        /\ \A b \in Approvals \ {a} : decisions'[b] = decisions[b]
    BY <2>1, <2>2 DEF TypeOK
  <2>4. decisions'[a] \in Decision /\ decisions'[a] # NoDecision
    BY <2>1, <2>3 DEF Decision, NoDecision
  <2>5. decisions' \in [Approvals -> Decision \cup {NoDecision}]
    BY <2>1, <2>2, <2>3, <2>4 DEF TypeOK
  <2>6. decisionOf' = decisionOf
    BY DEF RecordOutcome
  <2>. QED
    BY <2>3, <2>4, <2>5, <2>6 DEF TypeOK, IndexIsRecorded
<1>. QED
  BY <1>1, <1>2

(* What one approve request's step leaves true of all coroutines. *)
LEMMA CoroutineKeeps ==
  ASSUME TInv, StoreKeeps, NEW r \in Approvers, NEW next \in Coroutine,
         approver' = [approver EXCEPT ![r] = next],
         next.pc \in {"checked", "decided", "recorded"} =>
           next.approval \in Approvals /\ approvals'[next.approval] # Store!NoRecord,
         next.pc \in {"decided", "recorded", "cleared", "running", "logging", "finished"} =>
           next.exec \in Executions,
         next.pc = "finished" => next.result \in Terminal
  PROVE  approver' \in [Approvers -> Coroutine] /\ CoroutineHas'
<1>1. /\ approver' \in [Approvers -> Coroutine] /\ approver'[r] = next
      /\ \A q \in Approvers \ {r} : approver'[q] = approver[q]
  BY DEF TInv, TypeOK
<1>. QED
  BY <1>1 DEF TInv, CoroutineHas, StoreKeeps, Recorded

(* What a step of the store leaves true of the coroutines and submissions. *)
LEMMA StoreKeepsHolders ==
  ASSUME TInv, StoreKeeps
  PROVE  /\ UNCHANGED approver => CoroutineHas'
         /\ UNCHANGED submission => CreatedIsBound'
  BY DEF TInv, CoroutineHas, CreatedIsBound, StoreKeeps

-----------------------------------------------------------------------------
(* Submissions. *)
LEMMA SubmitCreateTInv ==
  ASSUME TInv, NEW e \in Executions, NEW a \in Approvals, SubmitCreate(e, a)
  PROVE  TInv'
<1>1. PICK p \in Payloads : Store!Create(e, p, a)
  BY DEF SubmitCreate
<1>2. StoreKeeps /\ Recorded(a)' /\ approvals'[a].exec = e
  BY <1>1, CreateKeeps DEF TInv, TypeOK
<1>3. TypeOK'
  BY <1>2 DEF TInv, TypeOK, SubmitCreate, StoreKeeps, registryVars, decisionVars, cacheVars
<1>4. CoroutineHas' /\ ThreadHas' /\ IndexIsRecorded'
  BY <1>2, StoreKeepsHolders DEF TInv, SubmitCreate, ThreadHas, IndexIsRecorded, decisionVars
<1>5. CreatedIsBound'
  BY <1>2 DEF TInv, TypeOK, SubmitCreate, CreatedIsBound, StoreKeeps
<1>. QED
  BY <1>2, <1>3, <1>4, <1>5 DEF TInv, StoreKeeps

(* A submission finds the approval it has created. *)
LEMMA CreatedIsOurs ==
  ASSUME CreatedIsBound, NEW e \in Executions, submission[e] = "created"
  PROVE  Created(e) \in Approvals /\ Recorded(Created(e)) /\ approvals[Created(e)].exec = e
  BY DEF CreatedIsBound, Created, Recorded

(* Registering a submitted command under the approval it has created. *)
LEMMA SubmitTInv ==
  ASSUME TInv, NEW e \in Executions, Submit(e)
  PROVE  TInv'
<1>1. submission[e] = "created" /\ Created(e) \in Approvals
  BY CreatedIsOurs DEF TInv, Submit, SubmitRaw, SubmitExecute
<1>2. /\ submission' = [submission EXCEPT ![e] = "done"] /\ loop' = Free
      /\ UNCHANGED <<decisionVars, cacheVars, armed, approver, rejecter, dispatched, restarts>>
  BY DEF Submit, SubmitRaw, SubmitExecute
<1>3. StoreKeeps
  BY TouchKeeps, IdleKeeps DEF TInv, TypeOK, Submit, SubmitRaw, SubmitExecute
<1>4. registry' \in Entries /\ registryFile' \in Entries \cup {Torn}
  <2>1. Register(e, "NONE", Created(e)) \/ Register(e, "BLOCKED", Created(e))
    BY DEF Submit, SubmitRaw, SubmitExecute
  <2>. QED
    BY <1>1, <2>1, RegisterTyped DEF TInv
<1>5. TypeOK'
  BY <1>2, <1>3, <1>4 DEF TInv, TypeOK, StoreKeeps, decisionVars, cacheVars
<1>6. CoroutineHas' /\ ThreadHas' /\ IndexIsRecorded'
  BY <1>2, <1>3, StoreKeepsHolders DEF TInv, ThreadHas, IndexIsRecorded, decisionVars
<1>7. CreatedIsBound'
  BY <1>2, <1>3 DEF TInv, TypeOK, CreatedIsBound, StoreKeeps
<1>. QED
  BY <1>3, <1>5, <1>6, <1>7 DEF TInv, StoreKeeps

(* Approve, from its first look to its answer. *)
LEMMA ApproveBeginTInv ==
  ASSUME TInv, NEW r \in Approvers, NEW a \in Approvals, ApproveBegin(r, a)
  PROVE  TInv'
<1>. DEFINE cached == a \in linked /\ cache[approvals[a].exec] # "none"
            open == ~cached /\ Store!Current[a].status = "pending"
            next == [Idle EXCEPT !.pc = IF open THEN "checked" ELSE "done", !.approval = a]
<1>1. /\ StoreKeeps
      /\ approver' = [approver EXCEPT ![r] = next]
      /\ loop' \in {r, Free}
      /\ UNCHANGED <<registryVars, decisionVars, cacheVars, armed, submission, rejecter,
                     dispatched, restarts>>
  BY TouchKeeps, IdleKeeps DEF TInv, TypeOK, ApproveBegin
<1>2. open => approvals'[a] # Store!NoRecord
  <2>1. Store!Current[a].status = "pending" => Recorded(a)
    BY CurrentKeeps DEF TInv, TypeOK, Recorded, Store!NoRecord
  <2>. QED
    BY <1>1, <2>1 DEF StoreKeeps, Recorded
<1>3. /\ next \in Coroutine /\ next.approval = a
      /\ next.pc = IF open THEN "checked" ELSE "done"
  BY DEF Idle, Coroutine
<1>4. approver' \in [Approvers -> Coroutine] /\ CoroutineHas'
  <2>. HIDE DEF next
  <2>. QED
    BY <1>1, <1>2, <1>3, CoroutineKeeps
<1>5. TypeOK'
  BY <1>1, <1>4 DEF TInv, TypeOK, StoreKeeps, registryVars, decisionVars, cacheVars
<1>6. ThreadHas' /\ CreatedIsBound' /\ IndexIsRecorded'
  BY <1>1, StoreKeepsHolders DEF TInv, ThreadHas, IndexIsRecorded, decisionVars
<1>. QED
  BY <1>1, <1>4, <1>5, <1>6 DEF TInv, StoreKeeps

(* The grant: the coroutine takes the execution from the approval. *)
LEMMA ApproveDecideTInv ==
  ASSUME TInv, NEW r \in Approvers, ApproveDecide(r)
  PROVE  TInv'
<1>. DEFINE a == approver[r].approval
            pc == IF Store!Current[a].status = "expired" THEN "done" ELSE "decided"
            next == [approver[r] EXCEPT !.pc = pc, !.exec = approvals[a].exec]
<1>1. a \in Approvals /\ Recorded(a)
  BY DEF TInv, CoroutineHas, ApproveDecide
<1>2. approvals[a].exec \in Executions
  BY <1>1 DEF TInv, TypeOK, Recorded, Store!TypeOK, Store!Store, Store!Record
<1>3. StoreKeeps
  BY <1>1, DecideKeeps DEF TInv, TypeOK, ApproveDecide
<1>4. /\ approver' = [approver EXCEPT ![r] = next]
      /\ loop' \in {r, Free}
      /\ UNCHANGED <<registryVars, decisionVars, cacheVars, armed, submission, rejecter,
                     dispatched, restarts>>
  BY DEF TInv, TypeOK, ApproveDecide
<1>5. /\ next \in Coroutine /\ next.pc \in {"done", "decided"}
      /\ next.approval = a /\ next.exec \in Executions
  <2>1. approver[r] \in Coroutine /\ pc \in {"done", "decided"}
    BY DEF TInv, TypeOK
  <2>. HIDE DEF pc
  <2>. QED
    BY <1>2, <2>1 DEF Coroutine
<1>6. approver' \in [Approvers -> Coroutine] /\ CoroutineHas'
  <2>1. approvals'[a] # Store!NoRecord
    BY <1>1, <1>3 DEF StoreKeeps, Recorded
  <2>. HIDE DEF next
  <2>. QED
    BY <1>1, <1>3, <1>4, <1>5, <2>1, CoroutineKeeps
<1>7. TypeOK'
  BY <1>3, <1>4, <1>6 DEF TInv, TypeOK, StoreKeeps, registryVars, decisionVars, cacheVars
<1>8. ThreadHas' /\ CreatedIsBound' /\ IndexIsRecorded'
  BY <1>3, <1>4, StoreKeepsHolders DEF TInv, ThreadHas, IndexIsRecorded, decisionVars
<1>. QED
  BY <1>3, <1>6, <1>7, <1>8 DEF TInv, StoreKeeps

(* The decision record. *)
LEMMA ApproveRecordTInv ==
  ASSUME TInv, NEW r \in Approvers, ApproveRecord(r)
  PROVE  TInv'
<1>. DEFINE a == approver[r].approval
            next == [approver[r] EXCEPT !.pc = "recorded"]
<1>1. /\ StoreKeeps
      /\ a \in Approvals /\ approvals'[a] # Store!NoRecord /\ approver[r].exec \in Executions
  BY IdleKeeps DEF TInv, TypeOK, CoroutineHas, ApproveRecord, StoreKeeps, Recorded
<1>2. /\ decisions' \in [Approvals -> Decision \cup {NoDecision}]
      /\ decisionOf' \in [Executions -> Approvals \cup {NoApproval}]
      /\ IndexIsRecorded'
  BY <1>1, RecordDecisionTyped DEF TInv, ApproveRecord
<1>3. /\ approver' = [approver EXCEPT ![r] = next]
      /\ UNCHANGED <<registryVars, cacheVars, armed, submission, rejecter, loop, dispatched,
                     restarts>>
  BY DEF TInv, TypeOK, ApproveRecord
<1>4. /\ next \in Coroutine /\ next.pc = "recorded"
      /\ next.approval = a /\ next.exec = approver[r].exec
  BY DEF TInv, TypeOK, Coroutine
<1>5. approver' \in [Approvers -> Coroutine] /\ CoroutineHas'
  <2>. HIDE DEF next
  <2>. QED
    BY <1>1, <1>3, <1>4, CoroutineKeeps
<1>6. TypeOK'
  BY <1>1, <1>2, <1>3, <1>5 DEF TInv, TypeOK, StoreKeeps, registryVars, cacheVars
<1>7. ThreadHas' /\ CreatedIsBound'
  BY <1>1, <1>3, StoreKeepsHolders DEF TInv, ThreadHas
<1>. QED
  BY <1>1, <1>2, <1>5, <1>6, <1>7 DEF TInv, StoreKeeps

(* What a step of r's coroutine once its decision is recorded does to the rest
   of the state. *)
RestKeeps(r) ==
  /\ StoreKeeps
  /\ registry' \in Entries /\ registryFile' \in Entries \cup {Torn}
  /\ decisions' \in [Approvals -> Decision \cup {NoDecision}]
  /\ decisionOf' \in [Executions -> Approvals \cup {NoApproval}]
  /\ IndexIsRecorded'
  /\ cache' \in [Executions -> {"none", "COMPLETED", "BLOCKED"}] /\ linked' \subseteq Approvals
  /\ dispatched' \in [Executions -> Nat]
  /\ loop' \in {Free, r, loop}
  /\ submission' \in [Executions -> {"new", "created", "done"}]
  /\ \A e \in Executions : submission'[e] = "created" => submission[e] = "created"
  /\ UNCHANGED <<armed, rejecter, restarts>>

(* What is left alone, or only read, is kept. *)
LEMMA RestKept ==
  ASSUME TInv
  PROVE  /\ UNCHANGED storeVars \/ Store!Touch => StoreKeeps
         /\ UNCHANGED registryVars =>
              registry' \in Entries /\ registryFile' \in Entries \cup {Torn}
         /\ UNCHANGED decisionVars =>
              /\ decisions' \in [Approvals -> Decision \cup {NoDecision}]
              /\ decisionOf' \in [Executions -> Approvals \cup {NoApproval}]
              /\ IndexIsRecorded'
         /\ UNCHANGED cacheVars =>
              /\ cache' \in [Executions -> {"none", "COMPLETED", "BLOCKED"}]
              /\ linked' \subseteq Approvals
         /\ UNCHANGED dispatched => dispatched' \in [Executions -> Nat]
         /\ UNCHANGED submission =>
              /\ submission' \in [Executions -> {"new", "created", "done"}]
              /\ \A e \in Executions : submission'[e] = "created" => submission[e] = "created"
  BY IdleKeeps, TouchKeeps DEF TInv, TypeOK, IndexIsRecorded, registryVars, decisionVars, cacheVars

(* The coroutine itself is at `next`. *)
LEMMA NextTInv ==
  ASSUME TInv, NEW r \in Approvers, RestKeeps(r), NEW next \in Coroutine,
         approver' = [approver EXCEPT ![r] = next],
         next.pc \in {"cleared", "running", "logging", "finished", "done"},
         next.pc # "done" => next.exec \in Executions,
         next.pc = "finished" => next.result \in Terminal
  PROVE  TInv'
<1>1. approver' \in [Approvers -> Coroutine] /\ CoroutineHas'
  BY CoroutineKeeps DEF RestKeeps
<1>2. TypeOK'
  BY <1>1 DEF TInv, TypeOK, StoreKeeps, RestKeeps
<1>3. ThreadHas' /\ CreatedIsBound'
  BY DEF TInv, ThreadHas, CreatedIsBound, StoreKeeps, RestKeeps
<1>. QED
  BY <1>1, <1>2, <1>3 DEF TInv, StoreKeeps, RestKeeps

(* The coroutine goes on, or is finished with a result. *)
LEMMA MoveTInv ==
  ASSUME TInv, NEW r \in Approvers, RestKeeps(r), approver[r].exec \in Executions,
         NEW pc \in {"cleared", "running", "logging", "done"},
         approver' = [approver EXCEPT ![r].pc = pc]
  PROVE  TInv'
<1>. DEFINE next == [approver[r] EXCEPT !.pc = pc]
<1>1. next \in Coroutine /\ next.pc = pc /\ next.exec = approver[r].exec
  BY DEF TInv, TypeOK, Coroutine
<1>2. approver' = [approver EXCEPT ![r] = next]
  BY DEF TInv, TypeOK
<1>. QED
  BY <1>1, <1>2, NextTInv

(* The coroutine ends its execution with a result. *)
LEMMA FinishTInv ==
  ASSUME TInv, NEW r \in Approvers, RestKeeps(r), approver[r].exec \in Executions,
         NEW result \in Terminal,
         approver' = [approver EXCEPT ![r].pc = "finished", ![r].result = result]
  PROVE  TInv'
<1>. DEFINE next == [approver[r] EXCEPT !.pc = "finished", !.result = result]
<1>1. /\ next \in Coroutine /\ next.pc = "finished"
      /\ next.exec = approver[r].exec /\ next.result = result
  BY DEF TInv, TypeOK, Coroutine
<1>2. approver' = [approver EXCEPT ![r] = next]
  BY DEF TInv, TypeOK
<1>. QED
  BY <1>1, <1>2, NextTInv

(* Resuming: an end, an answer, or an execution that is cleared. *)
LEMMA ResumeTInv ==
  ASSUME TInv, NEW r \in Approvers, Resume(r)
  PROVE  TInv'
<1>. DEFINE e == approver[r].exec
<1>1. e \in Executions
  BY DEF TInv, CoroutineHas, Resume
<1>2. registry' \in Entries /\ registryFile' \in Entries \cup {Torn}
  <2>1. UNCHANGED registryVars \/ Register(e, "EXECUTING", NoApproval)
    BY DEF Resume
  <2>. QED
    BY <1>1, <2>1, RestKept, RegisterTyped DEF TInv
<1>3. RestKeeps(r)
  <2>1. /\ UNCHANGED storeVars \/ Store!Touch
        /\ loop' \in {Free, r, loop}
        /\ UNCHANGED <<decisionVars, cacheVars, armed, submission, rejecter, dispatched,
                       restarts>>
    BY DEF Resume
  <2>. QED
    BY <1>2, <2>1, RestKept DEF RestKeeps
<1>4. CASE approver' = [approver EXCEPT ![r].pc = "done"]
  BY <1>1, <1>3, <1>4, MoveTInv
<1>5. CASE approver' = [approver EXCEPT ![r].pc = "finished", ![r].result = "BLOCKED"]
  BY <1>1, <1>3, <1>5, FinishTInv DEF Terminal
<1>6. CASE approver' = [approver EXCEPT ![r].pc = "cleared"]
  BY <1>1, <1>3, <1>6, MoveTInv
<1>. QED
  BY <1>4, <1>5, <1>6 DEF Resume

(* The gate, or the start of the executor. *)
LEMMA DispatchTInv ==
  ASSUME TInv, NEW r \in Approvers, Dispatch(r)
  PROVE  TInv'
<1>. DEFINE e == approver[r].exec
<1>1. e \in Executions
  BY DEF TInv, CoroutineHas, Dispatch
<1>2. registry' \in Entries /\ registryFile' \in Entries \cup {Torn}
  <2>1. UNCHANGED registryVars \/ SetState(e, "BLOCKED")
    BY DEF Dispatch
  <2>. QED
    BY <1>1, <2>1, RestKept, SetStateTyped DEF TInv, Terminal
<1>3. dispatched' \in [Executions -> Nat]
  BY <1>1 DEF TInv, TypeOK, Dispatch
<1>4. RestKeeps(r)
  <2>1. /\ loop' \in {Free, r, loop}
        /\ UNCHANGED <<storeVars, decisionVars, cacheVars, armed, submission, rejecter, restarts>>
    BY DEF Dispatch
  <2>. QED
    BY <1>2, <1>3, <2>1, RestKept DEF RestKeeps
<1>5. CASE approver' = [approver EXCEPT ![r].pc = "finished", ![r].result = "BLOCKED"]
  BY <1>1, <1>4, <1>5, FinishTInv DEF Terminal
<1>6. CASE approver' = [approver EXCEPT ![r].pc = "running"]
  BY <1>1, <1>4, <1>6, MoveTInv
<1>. QED
  BY <1>5, <1>6 DEF Dispatch

(* The end of the executor. *)
LEMMA ReturnTInv ==
  ASSUME TInv, NEW r \in Approvers, NEW outcome \in Terminal, Return(r, outcome)
  PROVE  TInv'
<1>. DEFINE e == approver[r].exec
<1>1. e \in Executions
  BY DEF TInv, CoroutineHas, Return
<1>2. registry' \in Entries /\ registryFile' \in Entries \cup {Torn}
  <2>1. UNCHANGED registryVars \/ SetState(e, outcome)
    BY DEF Return
  <2>. QED
    BY <1>1, <2>1, RestKept, SetStateTyped DEF TInv
<1>3. RestKeeps(r)
  <2>1. /\ loop' \in {Free, r, loop}
        /\ UNCHANGED <<storeVars, decisionVars, cacheVars, armed, submission, rejecter,
                       dispatched, restarts>>
    BY DEF Return
  <2>. QED
    BY <1>2, <2>1, RestKept DEF RestKeeps
<1>4. CASE approver' = [approver EXCEPT ![r].pc = "finished", ![r].result = outcome]
  BY <1>1, <1>3, <1>4, FinishTInv
<1>5. CASE approver' = [approver EXCEPT ![r].pc = "logging"]
  BY <1>1, <1>3, <1>5, MoveTInv
<1>. QED
  BY <1>4, <1>5 DEF Return

(* The end of the handoff write. *)
LEMMA ReturnLoggedTInv ==
  ASSUME TInv, NEW r \in Approvers, ReturnLogged(r)
  PROVE  TInv'
<1>1. approver[r].exec \in Executions
  BY DEF TInv, CoroutineHas, ReturnLogged
<1>2. registry' \in Entries /\ registryFile' \in Entries \cup {Torn}
  BY <1>1, SetStateTyped DEF TInv, ReturnLogged, Terminal
<1>3. RestKeeps(r)
  BY <1>2, RestKept DEF RestKeeps, ReturnLogged
<1>. QED
  BY <1>1, <1>3, FinishTInv DEF ReturnLogged, Terminal

(* The outcome and the cache. *)
LEMMA AnswerTInv ==
  ASSUME TInv, NEW r \in Approvers, Answer(r)
  PROVE  TInv'
<1>. DEFINE a == approver[r].approval
            e == approver[r].exec
            result == approver[r].result
<1>1. e \in Executions /\ result \in Terminal /\ a \in Approvals \cup {NoApproval}
  BY DEF TInv, TypeOK, Coroutine, CoroutineHas, Answer
<1>2. /\ decisions' \in [Approvals -> Decision \cup {NoDecision}]
      /\ decisionOf' \in [Executions -> Approvals \cup {NoApproval}]
      /\ IndexIsRecorded'
  <2>1. UNCHANGED decisionVars \/ RecordOutcome(e, result)
    BY DEF Answer
  <2>. QED
    BY <1>1, <2>1, RestKept, RecordOutcomeTyped DEF TInv
<1>3. cache' \in [Executions -> {"none", "COMPLETED", "BLOCKED"}] /\ linked' \subseteq Approvals
  <2>1. CASE UNCHANGED cacheVars
    BY <2>1, RestKept
  <2>2. CASE /\ a # NoApproval /\ result # "FAILED"
             /\ cache' = [cache EXCEPT ![e] = result] /\ linked' = linked \cup {a}
    BY <1>1, <2>2 DEF TInv, TypeOK, Terminal
  <2>. QED
    BY <2>1, <2>2 DEF Answer
<1>4. RestKeeps(r)
  BY <1>2, <1>3, RestKept DEF RestKeeps, Answer
<1>. QED
  BY <1>1, <1>4, MoveTInv DEF Answer

(* A refresh, which no approval precedes. *)
LEMMA RefreshTInv ==
  ASSUME TInv, NEW r \in Approvers, NEW e \in Executions, Refresh(r, e)
  PROVE  TInv'
<1>1. registry' \in Entries /\ registryFile' \in Entries \cup {Torn}
  BY RegisterTyped DEF TInv, Refresh
<1>2. /\ submission' \in [Executions -> {"new", "created", "done"}]
      /\ \A d \in Executions : submission'[d] = "created" => submission[d] = "created"
  BY DEF TInv, TypeOK, Refresh
<1>3. RestKeeps(r)
  BY <1>1, <1>2, RestKept DEF RestKeeps, Refresh
<1>. DEFINE next == [Idle EXCEPT !.pc = "cleared", !.exec = e]
<1>4. next \in Coroutine /\ next.pc = "cleared" /\ next.exec = e
  BY DEF Idle, Coroutine
<1>. QED
  BY <1>3, <1>4, NextTInv DEF Refresh

-----------------------------------------------------------------------------
(* The threads, the clock and the gate. *)
LEMMA RejectDecideTInv ==
  ASSUME TInv, NEW t \in Rejecters, NEW a \in Approvals, RejectDecide(t, a)
  PROVE  TInv'
<1>1. StoreKeeps
  BY DecideKeeps DEF TInv, TypeOK, RejectDecide
<1>2. PICK pc \in {"done", "decided"} :
        rejecter' = [rejecter EXCEPT ![t] = [pc |-> pc, approval |-> a]]
  BY DEF RejectDecide
<1>3. UNCHANGED <<registryVars, decisionVars, cacheVars, armed, submission, approver, loop,
                  dispatched, restarts>>
  BY DEF RejectDecide
<1>4. TypeOK'
  <2>1. [pc |-> pc, approval |-> a] \in Thread
    BY DEF Thread
  <2>. QED
    BY <1>1, <1>2, <1>3, <2>1
       DEF TInv, TypeOK, StoreKeeps, registryVars, decisionVars, cacheVars
<1>5. ThreadHas'
  BY <1>2 DEF TInv, TypeOK, ThreadHas
<1>6. CoroutineHas' /\ CreatedIsBound' /\ IndexIsRecorded'
  BY <1>1, <1>3, StoreKeepsHolders DEF TInv, IndexIsRecorded, decisionVars
<1>. QED
  BY <1>1, <1>4, <1>5, <1>6 DEF TInv, StoreKeeps

(* The refusal is recorded. *)
LEMMA RejectRecordTInv ==
  ASSUME TInv, NEW t \in Rejecters, RejectRecord(t)
  PROVE  TInv'
<1>1. StoreKeeps /\ rejecter[t].approval \in Approvals
  BY IdleKeeps DEF TInv, TypeOK, ThreadHas, RejectRecord
<1>2. /\ decisions' \in [Approvals -> Decision \cup {NoDecision}]
      /\ decisionOf' \in [Executions -> Approvals \cup {NoApproval}]
      /\ IndexIsRecorded'
  BY <1>1, RecordDecisionTyped DEF TInv, RejectRecord
<1>3. /\ rejecter' = [rejecter EXCEPT ![t].pc = "done"]
      /\ UNCHANGED <<registryVars, cacheVars, armed, submission, approver, loop, dispatched,
                     restarts>>
  BY DEF RejectRecord
<1>4. rejecter' \in [Rejecters -> Thread] /\ ThreadHas'
  BY <1>3 DEF TInv, TypeOK, Thread, ThreadHas
<1>5. TypeOK'
  BY <1>1, <1>2, <1>3, <1>4 DEF TInv, TypeOK, StoreKeeps, registryVars, cacheVars
<1>6. CoroutineHas' /\ CreatedIsBound'
  BY <1>1, <1>3, StoreKeepsHolders
<1>. QED
  BY <1>1, <1>2, <1>4, <1>5, <1>6 DEF TInv, StoreKeeps

(* A step of nothing but the store and the gate. *)
LEMMA AsideTInv ==
  ASSUME TInv, StoreKeeps, armed' \in BOOLEAN,
         UNCHANGED <<registryVars, decisionVars, cacheVars, submission, approver, rejecter, loop,
                     dispatched, restarts>>
  PROVE  TInv'
<1>1. TypeOK'
  BY DEF TInv, TypeOK, StoreKeeps, registryVars, decisionVars, cacheVars
<1>2. ThreadHas' /\ CoroutineHas' /\ CreatedIsBound' /\ IndexIsRecorded'
  BY StoreKeepsHolders DEF TInv, ThreadHas, IndexIsRecorded, decisionVars
<1>. QED
  BY <1>1, <1>2 DEF TInv, StoreKeeps

(* A reader or the clock. *)
LEMMA ElsewhereTInv ==
  ASSUME TInv, Elsewhere
  PROVE  TInv'
<1>1. StoreKeeps
  BY TouchKeeps, AgeKeeps DEF TInv, TypeOK, Elsewhere
<1>. QED
  BY <1>1, AsideTInv DEF TInv, TypeOK, Elsewhere

(* The gate is armed or disarmed. *)
LEMMA ToggleTInv ==
  ASSUME TInv, Toggle
  PROVE  TInv'
<1>1. StoreKeeps
  BY IdleKeeps DEF TInv, TypeOK, Toggle
<1>. QED
  BY <1>1, AsideTInv DEF TInv, TypeOK, Toggle

(* A crash resets every coroutine, thread and submission, so what the store
   may lose nobody holds. *)
LEMMA CrashTInv ==
  ASSUME TInv, Crash
  PROVE  TInv'
<1>1. Store!TypeOK' /\ OnlyIssued'
  BY RestartKeeps DEF TInv, TypeOK, Crash
<1>2. registry' \in Entries /\ registryFile' \in Entries \cup {Torn}
  BY DEF TInv, TypeOK, Crash, Entries
<1>3. restarts' \in 0..MaxRestarts
  BY GovernedAssumption DEF TInv, TypeOK, Crash
<1>4. /\ approver' = [r \in Approvers |-> Idle] /\ Idle \in Coroutine /\ Idle.pc = "idle"
      /\ rejecter' = [t \in Rejecters |-> [pc |-> "idle", approval |-> NoApproval]]
      /\ submission' = [e \in Executions |-> IF submission[e] = "new" THEN "new" ELSE "done"]
      /\ cache' = [e \in Executions |-> "none"] /\ linked' = {} /\ loop' = Free
      /\ UNCHANGED <<decisionVars, armed, dispatched>>
  BY DEF Crash, Idle, Coroutine
<1>5. TypeOK'
  <2>1. [pc |-> "idle", approval |-> NoApproval] \in Thread
    BY DEF Thread
  <2>2. approver' \in [Approvers -> Coroutine] /\ rejecter' \in [Rejecters -> Thread]
    BY <1>4, <2>1
  <2>3. /\ submission' \in [Executions -> {"new", "created", "done"}]
        /\ cache' \in [Executions -> {"none", "COMPLETED", "BLOCKED"}]
    BY <1>4
  <2>. QED
    BY <1>1, <1>2, <1>3, <1>4, <2>2, <2>3 DEF TInv, TypeOK, decisionVars
<1>6. CoroutineHas' /\ ThreadHas' /\ CreatedIsBound' /\ IndexIsRecorded'
  BY <1>4 DEF TInv, CoroutineHas, ThreadHas, CreatedIsBound, IndexIsRecorded, decisionVars
<1>. QED
  BY <1>1, <1>5, <1>6 DEF TInv

(* The initial states are well formed. *)
LEMMA InitTInv == Init => TInv
<1>. SUFFICES ASSUME Init
              PROVE  TInv
  OBVIOUS
<1>1. Store!TypeOK /\ OnlyIssued
  BY DEF Init, Store!Init, Store!TypeOK, Store!Empty, Store!Store, OnlyIssued
<1>2. Idle \in Coroutine /\ Idle.pc = "idle" /\ [pc |-> "idle", approval |-> NoApproval] \in Thread
  BY DEF Idle, Coroutine, Thread
<1>3. TypeOK
  BY <1>1, <1>2, GovernedAssumption DEF Init, TypeOK, Entries
<1>4. CoroutineHas /\ ThreadHas /\ CreatedIsBound /\ IndexIsRecorded
  BY <1>2 DEF Init, CoroutineHas, ThreadHas, CreatedIsBound, IndexIsRecorded
<1>. QED
  BY <1>1, <1>3, <1>4 DEF TInv

(* Every step keeps the invariant. *)
LEMMA NextTInvKept == TInv /\ [Next]_vars => TInv'
<1>. SUFFICES ASSUME TInv, [Next]_vars
              PROVE  TInv'
  OBVIOUS
<1>1. ASSUME NEW e \in Executions, Submit(e) \/ \E a \in Approvals : SubmitCreate(e, a)
      PROVE  TInv'
  BY <1>1, SubmitTInv, SubmitCreateTInv
<1>2. ASSUME NEW r \in Approvers, Proceed(r)
      PROVE  TInv'
  BY <1>2, ApproveDecideTInv, ApproveRecordTInv, ResumeTInv, DispatchTInv, ReturnTInv,
     ReturnLoggedTInv, AnswerTInv DEF Proceed
<1>3. ASSUME NEW r \in Approvers,
             \/ \E a \in Approvals : ApproveBegin(r, a)
             \/ \E e \in Executions : Refresh(r, e)
      PROVE  TInv'
  BY <1>3, ApproveBeginTInv, RefreshTInv
<1>4. ASSUME NEW t \in Rejecters, RejectRecord(t) \/ \E a \in Approvals : RejectDecide(t, a)
      PROVE  TInv'
  BY <1>4, RejectRecordTInv, RejectDecideTInv
<1>5. CASE Elsewhere \/ Toggle \/ Crash
  BY <1>5, ElsewhereTInv, ToggleTInv, CrashTInv
<1>6. CASE UNCHANGED vars
  <2>1. StoreKeeps
    BY <1>6, IdleKeeps DEF TInv, TypeOK, vars
  <2>. QED
    BY <1>6, <2>1, AsideTInv DEF TInv, TypeOK, vars
<1>. QED
  BY <1>1, <1>2, <1>3, <1>4, <1>5, <1>6 DEF Next

(* The invariant holds in every reachable state. *)
LEMMA TInvHolds == Spec => []TInv
  BY InitTInv, NextTInvKept, PTL DEF Spec

(* The state of the write path keeps its shape, whichever reads and writes fail
   and wherever the process stops. *)
THEOREM TypeCorrect == Spec => []TypeOK
<1>1. TInv => TypeOK
  BY DEF TInv
<1>. QED
  BY <1>1, TInvHolds, PTL

=============================================================================
