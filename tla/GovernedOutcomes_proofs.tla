----------------------- MODULE GovernedOutcomes_proofs -----------------------
(***************************************************************************)
(* What becomes of an execution, while the approval file works: its end is *)
(* final, what the decision record and the answer cache report of it is so *)
(* and stays so.                                                           *)
(*                                                                         *)
(* The argument.  An executor runs alone (RunsAlone), and until its answer *)
(* is cached its command is neither cached nor taken up by another approve *)
(* request (IsFine), since such a request must have found the approval     *)
(* pending and nothing undoes a decision (SettlesOnce).  So nobody writes  *)
(* the registry entry of an execution that has ended (EndsOnce).           *)
(***************************************************************************)
EXTENDS GovernedEffects_proofs

(* Past the grant, and with an executor under way. *)
Taken   == {"decided", "recorded", "cleared", "running", "logging", "finished"}
Working == {"running", "logging"}

(* A coroutine past the grant works on the execution of its approval, which is
   decided; its command has not been answered for yet. *)
IsFine(r) ==
  LET a == approver[r].approval  e == approver[r].exec  pc == approver[r].pc IN
  /\ pc = "checked" => cache[approvals[a].exec] = "none"
  /\ pc \in Taken =>
       /\ a # NoApproval => Recorded(a) /\ approvals[a].exec = e /\ approvals[a].status # "pending"
       /\ submission[e] # "new"
       /\ pc # "finished" => cache[e] = "none"
  /\ pc = "cleared" => registry[e].state = "EXECUTING" /\ dispatched[e] = 0
  /\ pc \in Working => registry[e].state = "EXECUTING" /\ dispatched[e] > 0
  /\ pc = "finished" =>
       \/ registry[e].state = approver[r].result
          /\ (approver[r].result # "BLOCKED" => dispatched[e] > 0)
       \/ approver[r].result = "BLOCKED" /\ a # NoApproval /\ ~Granted(e) /\ dispatched[e] = 0

RunsAlone ==
  \A r, q \in Approvers :
    r # q /\ approver[r].pc \in Working
          /\ approver[q].pc \in Working \cup {"cleared", "finished"}
    => approver[r].exec # approver[q].exec

(* The registry knows nothing of what is not submitted, calls nothing ended
   that was not started; what is cached is decided, and stands. *)
IsSo(e) ==
  /\ submission[e] # "done" => registry[e] = NoEntry
  /\ submission[e] = "new" => dispatched[e] = 0
  /\ registry[e].state \in {"COMPLETED", "FAILED"} => dispatched[e] > 0
  /\ cache[e] # "none" =>
       /\ \E a \in Bound(e) : approvals[a].status # "pending"
       /\ \/ registry[e].state = cache[e]
          \/ cache[e] = "BLOCKED" /\ ~Granted(e) /\ dispatched[e] = 0

FileFollows == registryFile # Torn => registryFile = registry

OutInv == /\ EInv
          /\ \A r \in Approvers : IsFine(r)
          /\ RunsAlone
          /\ \A e \in Executions : IsSo(e)
          /\ FileFollows

-----------------------------------------------------------------------------
(* No step takes a record, or a decision, back. *)
SettlesOnce ==
  \A a \in Approvals : Recorded(a) =>
    /\ Recorded(a)' /\ approvals'[a].exec = approvals[a].exec
    /\ approvals[a].status # "pending" => approvals'[a].status = approvals[a].status

(* Expiry takes no decision back. *)
LEMMA CurrentSettles ==
  ASSUME Store!TypeOK
  PROVE  \A a \in Approvals :
           /\ Store!Current[a] # Store!NoRecord <=> Recorded(a)
           /\ Recorded(a) => /\ Store!Current[a].exec = approvals[a].exec
                             /\ approvals[a].status # "pending" => Store!Current[a] = approvals[a]
  BY DEF Store!TypeOK, Store!Current, Store!Expired, Store!Store, Store!Record, Store!NoRecord,
         Recorded

(* Deciding a pending approval. *)
LEMMA DecideSettles ==
  ASSUME DiskMayFail = FALSE, EInv, NEW a \in Approvals, Store!Approve(a) \/ Store!Reject(a)
  PROVE  SettlesOnce
<1>1. ASSUME NEW decision \in {"approved", "rejected"},
             approvals' = IF Store!Current[a].status = "pending"
                            THEN [Store!Current EXCEPT ![a].status = decision] ELSE Store!Current
      PROVE  SettlesOnce
  <2>1. CASE Store!Current[a].status # "pending"
    BY <1>1, <2>1, CurrentSettles DEF EInv, TInv, TypeOK, SettlesOnce, Recorded
  <2>2. CASE Store!Current[a].status = "pending"
    <3>. DEFINE new == [Store!Current EXCEPT ![a].status = decision]
    <3>1. /\ \A b \in Approvals \ {a} : new[b] = Store!Current[b]
          /\ new[a] # Store!NoRecord
          /\ Recorded(a) => new[a].exec = Store!Current[a].exec
      BY <2>2, CurrentKeeps DEF EInv, TInv, TypeOK, Store!Store, Store!Record, Store!NoRecord,
                                Recorded
    <3>2. Recorded(a) => approvals[a].status = "pending"
      BY <2>2, CurrentSettles DEF EInv, TInv, TypeOK
    <3>. HIDE DEF new
    <3>3. approvals' = new
      BY <1>1, <2>2 DEF new
    <3>. QED
      BY <3>1, <3>2, <3>3, CurrentSettles DEF EInv, TInv, TypeOK, SettlesOnce, Recorded
  <2>. QED
    BY <2>1, <2>2
<1>. QED
  BY <1>1 DEF Store!Approve, Store!Reject, Store!Commit

(* Creating an approval. *)
LEMMA CreateSettles ==
  ASSUME EInv, NEW e \in Executions, NEW p \in Payloads, NEW a \in Approvals, Store!Create(e, p, a)
  PROVE  SettlesOnce
<1>1. CASE Store!Touch
  BY <1>1, CurrentSettles DEF EInv, TInv, TypeOK, SettlesOnce, Store!Touch, Store!Commit, Recorded
<1>2. CASE /\ a \in Approvals \ issued
           /\ Store!Commit([Store!Current EXCEPT ![a] =
                              [status |-> "pending", exec |-> e, payload |-> p]])
  <2>. DEFINE new == [Store!Current EXCEPT ![a] = [status |-> "pending", exec |-> e, payload |-> p]]
  <2>1. approvals' = new /\ ~Recorded(a)
    BY <1>2 DEF Store!Commit, EInv, TInv, OnlyIssued, Recorded
  <2>2. \A b \in Approvals \ {a} : new[b] = Store!Current[b]
    BY CurrentKeeps DEF EInv, TInv, TypeOK, Store!Store
  <2>. HIDE DEF new
  <2>. QED
    BY <2>1, <2>2, CurrentSettles DEF EInv, TInv, TypeOK, SettlesOnce, Recorded
<1>. QED
  BY <1>1, <1>2 DEF Store!Create

(* Every step. *)
LEMMA NextSettles ==
  ASSUME DiskMayFail = FALSE, EInv, [Next]_vars
  PROVE  SettlesOnce
<1>1. \/ UNCHANGED storeVars \/ Store!Touch \/ Store!Restart
      \/ \E a \in Approvals : \/ Store!Age(a) \/ Store!Reject(a) \/ Store!Approve(a)
                              \/ \E e \in Executions, p \in Payloads : Store!Create(e, p, a)
  <2>1. ASSUME NEW r \in Approvers, Proceed(r)
        PROVE  \/ UNCHANGED storeVars \/ Store!Touch
               \/ \E a \in Approvals : Store!Approve(a)
    <3>1. ApproveDecide(r) => approver[r].approval \in Approvals
      BY DEF ApproveDecide, EInv, TInv, CoroutineHas
    <3>. QED
      BY <2>1, <3>1 DEF Proceed, ApproveDecide, ApproveRecord, Resume, Dispatch, Return,
                        ReturnLogged, Answer
  <2>. QED
    BY <2>1 DEF Next, Submit, SubmitRaw, SubmitExecute, SubmitCreate, ApproveBegin, Refresh,
                RejectRecord, RejectDecide, Elsewhere, Toggle, Crash, vars
<1>2. CASE UNCHANGED storeVars \/ \E a \in Approvals : Store!Age(a)
  BY <1>2 DEF storeVars, Store!Age, SettlesOnce, Recorded
<1>3. CASE Store!Touch
  BY <1>3, CurrentSettles DEF EInv, TInv, TypeOK, SettlesOnce, Store!Touch, Store!Commit, Recorded
<1>4. CASE Store!Restart
  BY <1>4, CurrentSettles DEF EInv, TInv, TypeOK, SettlesOnce, Store!Restart, Store!Current, Recorded
<1>. QED
  BY <1>1, <1>2, <1>3, <1>4, DecideSettles, CreateSettles

(* A decided command stays as granted as it is. *)
LEMMA DecidedStays ==
  ASSUME EInv, EInv', SettlesOnce, NEW e \in Executions, NEW a \in Bound(e),
         approvals[a].status # "pending"
  PROVE  /\ a \in Bound(e)' /\ approvals'[a].status # "pending"
         /\ Granted(e)' <=> Granted(e)
<1>1. /\ a \in Approvals /\ Recorded(a) /\ approvals[a].exec = e
      /\ Recorded(a)' /\ approvals'[a].exec = e /\ approvals'[a].status = approvals[a].status
  BY DEF Bound, Recorded, SettlesOnce
<1>2. \A b \in Bound(e) : b = a
  BY <1>1 DEF Bound, Recorded, EInv, OneApproval
<1>3. \A b \in Bound(e)' : b = a
  BY <1>1 DEF Bound, Recorded, EInv, OneApproval
<1>. QED
  BY <1>1, <1>2, <1>3 DEF Granted, Bound, Recorded

-----------------------------------------------------------------------------
(* A coroutine that works on another execution than the one a step is about. *)
LEMMA OtherIsFine ==
  ASSUME EInv, EInv', SettlesOnce, NEW q \in Approvers, IsFine(q),
         approver'[q] = approver[q], approver[q].pc \notin Holding,
         approver[q].pc \in Working =>
           /\ registry'[approver[q].exec] = registry[approver[q].exec]
           /\ dispatched'[approver[q].exec] = dispatched[approver[q].exec]
           /\ cache'[approver[q].exec] = cache[approver[q].exec]
           /\ submission'[approver[q].exec] # "new"
  PROVE  IsFine(q)'
<1>1. CASE approver[q].pc \notin Working
  BY <1>1 DEF IsFine, Holding, Taken, Working
<1>2. CASE approver[q].pc \in Working
  <2>. DEFINE a == approver[q].approval
  <2>1. a # NoApproval => /\ Recorded(a)' /\ approvals'[a].exec = approver[q].exec
                          /\ approvals'[a].status # "pending"
    <3>1. a \in Approvals \cup {NoApproval}
      BY DEF EInv, TInv, TypeOK, Coroutine
    <3>. QED
      BY <1>2, <3>1 DEF IsFine, Taken, Working, SettlesOnce
  <2>. QED
    BY <1>2, <2>1 DEF IsFine, Taken, Working
<1>. QED
  BY <1>1, <1>2

(* An execution a step is not about. *)
LEMMA OtherIsSo ==
  ASSUME EInv, EInv', SettlesOnce, NEW d \in Executions, IsSo(d),
         registry'[d] = registry[d], dispatched'[d] = dispatched[d], cache'[d] = cache[d],
         submission'[d] # "done" => submission[d] # "done",
         submission'[d] = "new" => submission[d] = "new"
  PROVE  IsSo(d)'
<1>1. CASE cache[d] = "none"
  BY <1>1 DEF IsSo
<1>2. CASE cache[d] # "none"
  <2>1. PICK a \in Bound(d) : approvals[a].status # "pending"
    BY <1>2 DEF IsSo
  <2>2. a \in Bound(d)' /\ approvals'[a].status # "pending" /\ (Granted(d)' <=> Granted(d))
    BY <2>1, DecidedStays
  <2>. QED
    BY <1>2, <2>2 DEF IsSo
<1>. QED
  BY <1>1, <1>2

(* A step of r's coroutine, which holds the loop or finds it free, about the
   execution e or about none. *)
LEMMA CoroutineOut ==
  ASSUME OutInv, EInv', SettlesOnce, NEW r \in Approvers, loop \in {Free, r},
         \A q \in Approvers \ {r} : approver'[q] = approver[q],
         NEW e \in Executions \cup {NoExecution},
         \A d \in Executions \ {e} :
           /\ registry'[d] = registry[d] /\ dispatched'[d] = dispatched[d]
           /\ cache'[d] = cache[d] /\ submission'[d] = submission[d],
         \A q \in Approvers \ {r} : approver[q].pc \in Working => approver[q].exec # e,
         approver'[r].pc \in Working \cup {"cleared", "finished"} => approver'[r].exec = e,
         UNCHANGED registryVars \/ registryFile' = registry',
         IsFine(r)', e \in Executions => IsSo(e)'
  PROVE  OutInv'
<1>1. \A q \in Approvers \ {r} : approver'[q] = approver[q] /\ approver[q].pc \notin Holding
  BY HolderIsAlone DEF OutInv
<1>2. \A q \in Approvers \ {r} : approver[q].pc \in Working => approver[q].exec \in Executions \ {e}
  BY DEF OutInv, EInv, TInv, CoroutineHas, Working
<1>3. ASSUME NEW q \in Approvers
      PROVE  IsFine(q)'
  <2>1. CASE q = r
    BY <2>1
  <2>2. CASE q # r
    <3>1. /\ IsFine(q) /\ EInv
          /\ approver[q].pc \in Working => submission[approver[q].exec] # "new"
      BY DEF OutInv, IsFine, Taken, Working
    <3>. QED
      BY <1>1, <1>2, <2>2, <3>1, OtherIsFine
  <2>. QED
    BY <2>1, <2>2
<1>4. RunsAlone'
  <2>. SUFFICES ASSUME NEW p \in Approvers, NEW q \in Approvers, p # q,
                       approver'[p].pc \in Working,
                       approver'[q].pc \in Working \cup {"cleared", "finished"}
                PROVE  approver'[p].exec # approver'[q].exec
    BY DEF RunsAlone
  <2>1. CASE p # r /\ q # r
    BY <1>1, <2>1 DEF OutInv, RunsAlone
  <2>2. CASE p = r
    BY <1>1, <1>2, <2>2 DEF Holding
  <2>3. CASE q = r
    BY <1>1, <1>2, <2>3
  <2>. QED
    BY <2>1, <2>2, <2>3
<1>5. ASSUME NEW d \in Executions
      PROVE  IsSo(d)'
  <2>1. CASE d = e
    BY <2>1
  <2>2. CASE d # e
    BY <2>2, OtherIsSo DEF OutInv
  <2>. QED
    BY <2>1, <2>2
<1>6. FileFollows'
  BY DEF OutInv, FileFollows, registryVars
<1>. QED
  BY <1>3, <1>4, <1>5, <1>6 DEF OutInv

(* What is written to the registry, with a file that follows it. *)
LEMMA PutIs ==
  ASSUME DiskMayFail = FALSE, EInv, NEW e \in Executions,
         NEW entry \in Entry, Put(e, entry)
  PROVE  /\ registry'[e] = entry /\ registryFile' = registry'
         /\ \A d \in Executions \ {e} : registry'[d] = registry[d]
  BY DEF EInv, TInv, TypeOK, Entries, Put

(* Ending or blocking an execution. *)
LEMMA SetStateIs ==
  ASSUME DiskMayFail = FALSE, EInv, NEW e \in Executions, NEW state \in Terminal,
         SetState(e, state)
  PROVE  /\ registry'[e].state = state /\ registryFile' = registry'
         /\ \A d \in Executions \ {e} : registry'[d] = registry[d]
<1>. DEFINE a == IF registry[e] = NoEntry THEN NoApproval ELSE registry[e].approval
            entry == [state |-> state, approval |-> a]
<1>1. entry \in Entry /\ entry.state = state
  BY DEF EInv, TInv, TypeOK, Entries, Entry
<1>2. Put(e, entry)
  BY DEF SetState
<1>. HIDE DEF entry
<1>. QED
  BY <1>1, <1>2, PutIs

(* Registering an execution, or starting it again. *)
LEMMA RegisterIs ==
  ASSUME DiskMayFail = FALSE, EInv, NEW e \in Executions,
         NEW state \in {"NONE", "EXECUTING", "BLOCKED"}, NEW a \in Approvals \cup {NoApproval},
         Register(e, state, a)
  PROVE  /\ state # "NONE" => registry'[e].state = state
         /\ state = "NONE" => registry'[e].state \in {"NONE", registry[e].state}
         /\ registryFile' = registry'
         /\ \A d \in Executions \ {e} : registry'[d] = registry[d]
<1>. DEFINE old == registry[e]
            s == IF state = "NONE" /\ old # NoEntry THEN old.state ELSE state
            b == IF a = NoApproval /\ old # NoEntry THEN old.approval ELSE a
            entry == [state |-> s, approval |-> b]
<1>1. entry \in Entry /\ entry.state = s
  BY DEF EInv, TInv, TypeOK, Entries, Entry, Terminal
<1>2. state # "NONE" => s = state
  OBVIOUS
<1>3. state = "NONE" => s \in {"NONE", registry[e].state}
  OBVIOUS
<1>4. Put(e, entry)
  BY DEF Register
<1>. HIDE DEF s, entry
<1>. QED
  BY <1>1, <1>2, <1>3, <1>4, PutIs

-----------------------------------------------------------------------------
(* A pending approval is that of a command that has not been answered for. *)
LEMMA PendingIsUncached ==
  ASSUME OutInv, NEW a \in Approvals, approvals[a].status = "pending"
  PROVE  /\ Recorded(a) /\ approvals[a].exec \in Executions
         /\ cache[approvals[a].exec] = "none"
<1>1. Recorded(a)
  BY DEF Recorded, Store!NoRecord
<1>2. approvals[a].exec \in Executions
  BY <1>1 DEF OutInv, EInv, OneApproval, Commands
<1>3. \A b \in Bound(approvals[a].exec) : b = a
  BY <1>1 DEF Bound, Recorded, OutInv, EInv, OneApproval
<1>. QED
  BY <1>1, <1>2, <1>3 DEF OutInv, IsSo

(* Nothing of the executions changes. *)
LEMMA NothingRuns ==
  ASSUME OutInv, EInv', SettlesOnce, NEW r \in Approvers, loop \in {Free, r},
         \A q \in Approvers \ {r} : approver'[q] = approver[q],
         UNCHANGED <<registryVars, cache, submission, dispatched>>,
         approver'[r].pc \notin Working \cup {"cleared", "finished"},
         IsFine(r)'
  PROVE  OutInv'
<1>1. \A q \in Approvers \ {r} : approver[q].pc \in Working => approver[q].exec # NoExecution
  BY GovernedAssumption DEF OutInv, EInv, TInv, CoroutineHas, Working
<1>. QED
  BY <1>1, CoroutineOut, GovernedAssumption DEF registryVars

(* The first look: whoever finds the approval pending finds nothing cached. *)
LEMMA ApproveBeginOut ==
  ASSUME DiskMayFail = FALSE, OutInv, EInv', SettlesOnce,
         NEW r \in Approvers, NEW a \in Approvals, ApproveBegin(r, a)
  PROVE  OutInv'
<1>1. /\ loop = Free /\ UNCHANGED <<registryVars, cache, submission, dispatched>>
      /\ \A q \in Approvers \ {r} : approver'[q] = approver[q]
      /\ approver'[r].approval = a
      /\ \/ approver'[r].pc = "done"
         \/ approver'[r].pc = "checked" /\ Store!Current[a].status = "pending"
  BY DEF ApproveBegin, OutInv, EInv, TInv, TypeOK, Idle, cacheVars
<1>2. Store!Current[a].status = "pending" => approvals[a].status = "pending"
  BY CurrentStays DEF OutInv, EInv, TInv, TypeOK
<1>3. IsFine(r)'
  BY <1>1, <1>2, PendingIsUncached DEF IsFine, Taken, Working, SettlesOnce
<1>. QED
  BY <1>1, <1>3, NothingRuns DEF Working

(* After the grant the approval is decided, by this request or by a thread. *)
LEMMA ApproveDecides ==
  ASSUME DiskMayFail = FALSE, EInv, NEW a \in Approvals, Recorded(a), Store!Approve(a),
         Store!Current[a].status # "expired"
  PROVE  approvals'[a].status # "pending"
<1>1. approvals' = IF Store!Current[a].status = "pending"
                     THEN [Store!Current EXCEPT ![a].status = "approved"] ELSE Store!Current
  BY DEF Store!Approve, Store!Commit
<1>. QED
  BY <1>1, CurrentKeeps DEF EInv, TInv, TypeOK, Store!Store, Store!Record, Store!NoRecord

(* The grant: the coroutine goes on with a decided approval. *)
LEMMA ApproveDecideOut ==
  ASSUME DiskMayFail = FALSE, OutInv, EInv', SettlesOnce, NEW r \in Approvers, ApproveDecide(r)
  PROVE  OutInv'
<1>. DEFINE a == approver[r].approval
<1>1. /\ approver[r].pc = "checked" /\ loop = r /\ a \in Approvals /\ Recorded(a)
      /\ cache[approvals[a].exec] = "none"
  BY DEF ApproveDecide, OutInv, EInv, TInv, CoroutineHas, LoopIsHeld, Holding, IsFine
<1>2. /\ Store!Approve(a) /\ UNCHANGED <<registryVars, cache, submission, dispatched>>
  BY DEF ApproveDecide, cacheVars
<1>3. /\ \A q \in Approvers \ {r} : approver'[q] = approver[q]
      /\ approver'[r].approval = a /\ approver'[r].exec = approvals[a].exec
      /\ \/ approver'[r].pc = "done"
         \/ approver'[r].pc = "decided" /\ Store!Current[a].status # "expired"
  <2>. DEFINE pc == IF Store!Current[a].status = "expired" THEN "done" ELSE "decided"
              next == [approver[r] EXCEPT !.pc = pc, !.exec = approvals[a].exec]
  <2>1. /\ approver' = [approver EXCEPT ![r] = next]
        /\ pc = "done" \/ (pc = "decided" /\ Store!Current[a].status # "expired")
    BY DEF ApproveDecide, OutInv, EInv, TInv, TypeOK
  <2>2. approver \in [Approvers -> Coroutine]
    BY DEF OutInv, EInv, TInv, TypeOK
  <2>. HIDE DEF pc
  <2>3. next.pc = pc /\ next.approval = a /\ next.exec = approvals[a].exec
    BY <2>2 DEF Coroutine
  <2>. HIDE DEF next
  <2>. QED
    BY <2>1, <2>2, <2>3
<1>4. Store!Current[a].status # "expired" => approvals'[a].status # "pending"
  BY <1>1, <1>2, ApproveDecides DEF OutInv
<1>5. submission[approvals[a].exec] # "new"
  BY <1>1 DEF OutInv, EInv, OneApproval
<1>6. IsFine(r)'
  BY <1>1, <1>2, <1>3, <1>4, <1>5 DEF IsFine, Taken, Working, SettlesOnce
<1>. QED
  BY <1>1, <1>2, <1>3, <1>6, NothingRuns DEF Working

(* The decision record is about neither the registry nor the cache. *)
LEMMA ApproveRecordOut ==
  ASSUME DiskMayFail = FALSE, OutInv, EInv', SettlesOnce, NEW r \in Approvers, ApproveRecord(r)
  PROVE  OutInv'
<1>1. /\ approver[r].pc = "decided" /\ loop = r /\ approver[r].approval \in Approvals
      /\ IsFine(r)
  BY DEF ApproveRecord, OutInv, EInv, TInv, CoroutineHas, LoopIsHeld, Holding
<1>2. UNCHANGED <<storeVars, registryVars, cache, submission, dispatched>>
  BY DEF ApproveRecord, cacheVars
<1>3. /\ approver'[r].pc = "recorded" /\ approver'[r].exec = approver[r].exec
      /\ approver'[r].approval = approver[r].approval
      /\ \A q \in Approvers \ {r} : approver'[q] = approver[q]
  BY PlaceOf DEF ApproveRecord, OutInv
<1>4. IsFine(r)'
  BY <1>1, <1>2, <1>3 DEF IsFine, Taken, Working, SettlesOnce, storeVars
<1>. QED
  BY <1>1, <1>2, <1>3, <1>4, NothingRuns DEF Working

(* What a step keeps of a coroutine's own approval. *)
LEMMA OwnStays ==
  ASSUME EInv, SettlesOnce, NEW r \in Approvers, IsFine(r), approver[r].pc \in Taken,
         approver'[r].approval = approver[r].approval
  PROVE  LET a == approver[r].approval IN
         a # NoApproval => /\ Recorded(a)' /\ approvals'[a].exec = approver[r].exec
                           /\ approvals'[a].status # "pending"
<1>1. approver[r].approval \in Approvals \cup {NoApproval}
  BY DEF EInv, TInv, TypeOK, Coroutine
<1>. QED
  BY <1>1 DEF IsFine, SettlesOnce

(* The execution is cleared, or found not granted for good. *)
LEMMA ResumeOut ==
  ASSUME DiskMayFail = FALSE, OutInv, EInv', SettlesOnce, NEW r \in Approvers, Resume(r)
  PROVE  OutInv'
<1>. PICK e \in Executions, a \in Approvals : e = approver[r].exec /\ a = approver[r].approval
  BY DEF Resume, OutInv, EInv, TInv, CoroutineHas
<1>1. /\ approver[r].pc = "recorded" /\ loop = r
      /\ Recorded(a) /\ approvals[a].exec = e /\ approvals[a].status # "pending"
      /\ dispatched[e] = 0 /\ cache[e] = "none" /\ submission[e] # "new"
      /\ IsFine(r) /\ IsSo(e) /\ EInv
  BY GovernedAssumption DEF Resume, OutInv, EInv, TInv, CoroutineHas, LoopIsHeld, Holding,
                            CoroutineIsFirst, IsFine, Taken
<1>2. UNCHANGED <<cache, submission, dispatched>>
  BY DEF Resume, cacheVars
<1>3. \A q \in Approvers \ {r} : approver[q].pc \in Working => approver[q].exec # e
  BY <1>1 DEF OutInv, IsFine, Working
<1>4. /\ a \in Bound(e) /\ e \in Commands /\ \A b \in Bound(e) : b = a
      /\ Granted(e)' <=> Granted(e)
  <2>1. a \in Bound(e) /\ e \in Commands /\ \A b \in Bound(e) : b = a
    BY <1>1 DEF Bound, Recorded, EInv, OneApproval
  <2>. QED
    BY <1>1, <2>1, DecidedStays
<1>5. CASE registry[e] = NoEntry /\ approver' = [approver EXCEPT ![r].pc = "done"]
           /\ UNCHANGED registryVars
  <2>1. approver'[r].pc = "done" /\ \A q \in Approvers \ {r} : approver'[q] = approver[q]
    BY <1>5, PlaceOf DEF OutInv
  <2>2. IsFine(r)'
    BY <2>1 DEF IsFine, Taken, Working
  <2>. QED
    BY <1>1, <1>2, <1>5, <2>1, <2>2, NothingRuns DEF Working
<1>6. CASE /\ registry[e] # NoEntry /\ ~MayResume(e)
           /\ approver' = [approver EXCEPT ![r].pc = "finished", ![r].result = "BLOCKED"]
           /\ UNCHANGED registryVars
  <2>1. /\ approver'[r].pc = "finished" /\ approver'[r].exec = e /\ approver'[r].approval = a
        /\ \A q \in Approvers \ {r} : approver'[q] = approver[q]
    BY <1>6, PlaceOf DEF OutInv, Terminal
  <2>2. approver'[r].result = "BLOCKED"
    BY <1>6 DEF OutInv, EInv, TInv, TypeOK, Coroutine
  <2>3. ~Granted(e)
    <3>1. registry[e].approval = a
      BY <1>1, <1>4, <1>6 DEF EInv, RegistryIsBound, EntriesAreBound
    <3>2. approvals[a].status # "approved"
      BY <1>1, <1>6, <3>1, CurrentStays
         DEF MayResume, EInv, TInv, TypeOK, Store!FullyApproved
    <3>. QED
      BY <1>4, <3>2 DEF Granted
  <2>4. IsFine(r)'
    BY <1>1, <1>2, <1>4, <2>1, <2>2, <2>3, OwnStays, GovernedAssumption
       DEF IsFine, Taken, Working
  <2>5. IsSo(e)'
    BY <1>1, <1>2, <1>6, OtherIsSo DEF registryVars
  <2>. QED
    BY <1>1, <1>2, <1>3, <1>6, <2>1, <2>4, <2>5, CoroutineOut DEF registryVars
<1>7. CASE /\ registry[e] # NoEntry /\ Register(e, "EXECUTING", NoApproval)
           /\ approver' = [approver EXCEPT ![r].pc = "cleared"]
  <2>1. /\ approver'[r].pc = "cleared" /\ approver'[r].exec = e /\ approver'[r].approval = a
        /\ \A q \in Approvers \ {r} : approver'[q] = approver[q]
    BY <1>7, PlaceOf DEF OutInv
  <2>2. /\ registry'[e].state = "EXECUTING" /\ registryFile' = registry'
        /\ \A d \in Executions \ {e} : registry'[d] = registry[d]
    BY <1>1, <1>7, RegisterIs
  <2>3. IsFine(r)'
    BY <1>1, <1>2, <2>1, <2>2, OwnStays DEF IsFine, Taken, Working
  <2>4. IsSo(e)'
    BY <1>1, <1>2, <1>7, <2>2 DEF IsSo
  <2>. QED
    BY <1>1, <1>2, <1>3, <2>1, <2>2, <2>3, <2>4, CoroutineOut
<1>. QED
  BY <1>5, <1>6, <1>7 DEF Resume

(* The gate blocks the execution, or its executor is started. *)
LEMMA DispatchOut ==
  ASSUME DiskMayFail = FALSE, OutInv, EInv', SettlesOnce, NEW r \in Approvers, Dispatch(r)
  PROVE  OutInv'
<1>. PICK e \in Executions : e = approver[r].exec
  BY DEF Dispatch, OutInv, EInv, TInv, CoroutineHas
<1>1. /\ approver[r].pc = "cleared" /\ loop = r
      /\ dispatched[e] = 0 /\ cache[e] = "none" /\ submission[e] # "new"
      /\ registry[e].state = "EXECUTING" /\ IsFine(r) /\ IsSo(e) /\ EInv
  BY DEF Dispatch, OutInv, EInv, TInv, LoopIsHeld, Holding, IsFine, Taken
<1>2. UNCHANGED <<cache, submission>>
  BY DEF Dispatch, cacheVars
<1>3. \A q \in Approvers \ {r} : approver[q].pc \in Working => approver[q].exec # e
  BY <1>1 DEF OutInv, IsFine, Working
<1>4. CASE /\ SetState(e, "BLOCKED") /\ UNCHANGED dispatched
           /\ approver' = [approver EXCEPT ![r].pc = "finished", ![r].result = "BLOCKED"]
  <2>1. /\ approver'[r].pc = "finished" /\ approver'[r].exec = e
        /\ approver'[r].approval = approver[r].approval
        /\ \A q \in Approvers \ {r} : approver'[q] = approver[q]
    BY <1>4, PlaceOf DEF OutInv, Terminal
  <2>2. approver'[r].result = "BLOCKED"
    BY <1>4 DEF OutInv, EInv, TInv, TypeOK, Coroutine
  <2>3. /\ registry'[e].state = "BLOCKED" /\ registryFile' = registry'
        /\ \A d \in Executions \ {e} : registry'[d] = registry[d]
    BY <1>1, <1>4, SetStateIs DEF Terminal
  <2>4. IsFine(r)'
    BY <1>1, <1>2, <1>4, <2>1, <2>2, <2>3, OwnStays DEF IsFine, Taken, Working
  <2>5. IsSo(e)'
    <3>1. registry[e] # NoEntry
      BY <1>1 DEF NoEntry
    <3>. QED
      BY <1>1, <1>2, <1>4, <2>3, <3>1 DEF IsSo
  <2>. QED
    BY <1>1, <1>2, <1>3, <1>4, <2>1, <2>3, <2>4, <2>5, CoroutineOut
<1>5. CASE /\ dispatched' = [dispatched EXCEPT ![e] = @ + 1] /\ UNCHANGED registryVars
           /\ approver' = [approver EXCEPT ![r].pc = "running"]
  <2>1. /\ approver'[r].pc = "running" /\ approver'[r].exec = e
        /\ approver'[r].approval = approver[r].approval
        /\ \A q \in Approvers \ {r} : approver'[q] = approver[q]
    BY <1>5, PlaceOf DEF OutInv
  <2>2. dispatched'[e] > 0 /\ \A d \in Executions \ {e} : dispatched'[d] = dispatched[d]
    BY <1>1, <1>5 DEF EInv, TInv, TypeOK
  <2>3. registry' = registry
    BY <1>5 DEF registryVars
  <2>4. IsFine(r)'
    BY <1>1, <1>2, <2>1, <2>2, <2>3, OwnStays DEF IsFine, Taken, Working
  <2>5. IsSo(e)'
    BY <1>1, <1>2, <2>2, <2>3 DEF IsSo
  <2>. QED
    BY <1>1, <1>2, <1>3, <1>5, <2>1, <2>2, <2>3, <2>4, <2>5, CoroutineOut
<1>. QED
  BY <1>4, <1>5 DEF Dispatch

(* The end of the executor is the end of the execution. *)
LEMMA EndOut ==
  ASSUME DiskMayFail = FALSE, OutInv, EInv', SettlesOnce, NEW r \in Approvers,
         NEW outcome \in Terminal, loop = Free, approver[r].pc \in Working,
         SetState(approver[r].exec, outcome),
         approver' = [approver EXCEPT ![r].pc = "finished", ![r].result = outcome],
         UNCHANGED <<cache, submission, dispatched>>
  PROVE  OutInv'
<1>. PICK e \in Executions : e = approver[r].exec
  BY DEF OutInv, EInv, TInv, CoroutineHas, Working
<1>1. /\ dispatched[e] > 0 /\ cache[e] = "none" /\ submission[e] # "new"
      /\ registry[e].state = "EXECUTING" /\ IsFine(r) /\ IsSo(e) /\ EInv
      /\ approver[r].pc \in Taken
  BY DEF OutInv, Working, IsFine, Taken
<1>2. \A q \in Approvers \ {r} : approver[q].pc \in Working => approver[q].exec # e
  BY DEF OutInv, RunsAlone
<1>3. /\ approver'[r].pc = "finished" /\ approver'[r].exec = e
      /\ approver'[r].approval = approver[r].approval
      /\ \A q \in Approvers \ {r} : approver'[q] = approver[q]
  BY PlaceOf DEF OutInv
<1>4. approver'[r].result = outcome
  BY DEF OutInv, EInv, TInv, TypeOK, Coroutine
<1>5. /\ registry'[e].state = outcome /\ registryFile' = registry'
      /\ \A d \in Executions \ {e} : registry'[d] = registry[d]
  BY <1>1, SetStateIs
<1>6. IsFine(r)'
  BY <1>1, <1>3, <1>4, <1>5, OwnStays DEF IsFine, Taken, Working
<1>7. IsSo(e)'
  <2>1. registry[e] # NoEntry
    BY <1>1 DEF NoEntry
  <2>. QED
    BY <1>1, <1>5, <2>1 DEF IsSo
<1>. QED
  BY <1>1, <1>2, <1>3, <1>5, <1>6, <1>7, CoroutineOut

(* The executor has come back, or asks for its log to be written. *)
LEMMA ReturnOut ==
  ASSUME DiskMayFail = FALSE, OutInv, EInv', SettlesOnce, NEW r \in Approvers,
         NEW outcome \in Terminal, Return(r, outcome) \/ ReturnLogged(r)
  PROVE  OutInv'
<1>1. /\ loop = Free /\ approver[r].pc \in Working
      /\ UNCHANGED <<cache, submission, dispatched>>
  BY DEF Return, ReturnLogged, Working, cacheVars
<1>2. CASE /\ approver[r].pc = "running" /\ approver' = [approver EXCEPT ![r].pc = "logging"]
           /\ UNCHANGED registryVars
  <2>. PICK e \in Executions : e = approver[r].exec
    BY <1>1 DEF OutInv, EInv, TInv, CoroutineHas, Working
  <2>1. /\ approver'[r].pc = "logging" /\ approver'[r].exec = e
        /\ approver'[r].approval = approver[r].approval
        /\ \A q \in Approvers \ {r} : approver'[q] = approver[q]
    BY <1>2, PlaceOf DEF OutInv
  <2>2. /\ IsFine(r) /\ IsSo(e) /\ EInv /\ submission[e] # "new" /\ approver[r].pc \in Taken
    BY <1>2 DEF OutInv, IsFine, Taken
  <2>3. IsFine(r)'
    BY <1>1, <1>2, <2>1, <2>2, OwnStays DEF IsFine, Taken, Working, registryVars
  <2>4. IsSo(e)'
    BY <1>1, <1>2, <2>2, OtherIsSo DEF registryVars
  <2>5. \A q \in Approvers \ {r} : approver[q].pc \in Working => approver[q].exec # e
    BY <1>1 DEF OutInv, RunsAlone
  <2>. QED
    BY <1>1, <1>2, <2>1, <2>3, <2>4, <2>5, CoroutineOut DEF registryVars
<1>3. CASE \E end \in Terminal :
             /\ SetState(approver[r].exec, end)
             /\ approver' = [approver EXCEPT ![r].pc = "finished", ![r].result = end]
  BY <1>1, <1>3, EndOut
<1>. QED
  BY <1>2, <1>3 DEF Return, ReturnLogged, Terminal

(* The answer is cached. *)
LEMMA AnswerOut ==
  ASSUME DiskMayFail = FALSE, OutInv, EInv', SettlesOnce, NEW r \in Approvers, Answer(r)
  PROVE  OutInv'
<1>. PICK e \in Executions : e = approver[r].exec
  BY DEF Answer, OutInv, EInv, TInv, CoroutineHas
<1>1. /\ approver[r].pc = "finished" /\ loop = r /\ submission[e] # "new"
      /\ IsFine(r) /\ IsSo(e) /\ EInv
  BY DEF Answer, OutInv, EInv, LoopIsHeld, Holding, IsFine, Taken
<1>2. UNCHANGED <<storeVars, registryVars, submission, dispatched>>
  BY DEF Answer
<1>3. \A q \in Approvers \ {r} : approver[q].pc \in Working => approver[q].exec # e
  BY <1>1 DEF OutInv, RunsAlone
<1>4. approver'[r].pc = "done" /\ \A q \in Approvers \ {r} : approver'[q] = approver[q]
  BY PlaceOf DEF Answer, OutInv
<1>5. IsFine(r)'
  BY <1>4 DEF IsFine, Taken, Working
<1>6. /\ \A d \in Executions \ {e} : cache'[d] = cache[d]
      /\ \/ cache'[e] = cache[e]
         \/ approver[r].approval # NoApproval /\ cache'[e] = approver[r].result
  BY DEF Answer, OutInv, EInv, TInv, TypeOK, cacheVars
<1>7. IsSo(e)'
  <2>1. CASE cache'[e] = cache[e]
    BY <1>1, <1>2, <2>1, OtherIsSo DEF registryVars
  <2>2. CASE approver[r].approval # NoApproval /\ cache'[e] = approver[r].result
    <3>1. PICK a \in Approvals : a = approver[r].approval
      BY <2>2 DEF OutInv, EInv, TInv, TypeOK, Coroutine
    <3>2. a \in Bound(e) /\ approvals[a].status # "pending"
      BY <1>1, <2>2, <3>1 DEF IsFine, Taken, Bound, Recorded
    <3>3. a \in Bound(e)' /\ approvals'[a].status # "pending" /\ (Granted(e)' <=> Granted(e))
      BY <1>1, <3>2, DecidedStays
    <3>4. \/ registry[e].state = approver[r].result
          \/ approver[r].result = "BLOCKED" /\ ~Granted(e) /\ dispatched[e] = 0
      BY <1>1 DEF IsFine
    <3>. QED
      BY <1>1, <1>2, <2>2, <3>3, <3>4 DEF IsSo, registryVars
  <2>. QED
    BY <1>6, <2>1, <2>2
<1>. QED
  BY <1>1, <1>2, <1>3, <1>4, <1>5, <1>6, <1>7, CoroutineOut DEF registryVars, Working

(* A refresh begins with an execution nobody has heard of. *)
LEMMA RefreshOut ==
  ASSUME DiskMayFail = FALSE, OutInv, EInv', SettlesOnce,
         NEW r \in Approvers, NEW e \in Executions, Refresh(r, e)
  PROVE  OutInv'
<1>1. /\ loop = Free /\ submission[e] = "new" /\ e \notin Commands
      /\ Register(e, "EXECUTING", NoApproval) /\ UNCHANGED <<cache, dispatched>>
      /\ IsSo(e) /\ EInv
  BY DEF Refresh, Commands, cacheVars, OutInv
<1>2. cache[e] = "none" /\ dispatched[e] = 0
  <2>1. Bound(e) = {}
    BY <1>1 DEF EInv, OneApproval, Bound, Recorded
  <2>. QED
    BY <1>1, <2>1 DEF IsSo
<1>3. \A q \in Approvers \ {r} : approver[q].pc \in Working => approver[q].exec # e
  BY <1>1 DEF OutInv, IsFine, Working, Taken
<1>4. /\ approver'[r].pc = "cleared" /\ approver'[r].exec = e /\ approver'[r].approval = NoApproval
      /\ \A q \in Approvers \ {r} : approver'[q] = approver[q]
  BY DEF Refresh, OutInv, EInv, TInv, TypeOK, Idle
<1>5. submission'[e] = "done" /\ \A d \in Executions \ {e} : submission'[d] = submission[d]
  BY DEF Refresh, OutInv, EInv, TInv, TypeOK
<1>6. /\ registry'[e].state = "EXECUTING" /\ registryFile' = registry'
      /\ \A d \in Executions \ {e} : registry'[d] = registry[d]
  BY <1>1, RegisterIs
<1>7. IsFine(r)'
  BY <1>1, <1>2, <1>4, <1>5, <1>6 DEF IsFine, Taken, Working
<1>8. IsSo(e)'
  BY <1>1, <1>2, <1>5, <1>6 DEF IsSo
<1>. QED
  BY <1>1, <1>3, <1>4, <1>5, <1>6, <1>7, <1>8, CoroutineOut

-----------------------------------------------------------------------------
(* A submission, which holds the loop or finds it free. *)
LEMMA SubmissionOut ==
  ASSUME OutInv, EInv', SettlesOnce, NEW e \in Executions, loop \in {Free, e},
         UNCHANGED <<approver, cache, dispatched>>, submission[e] # "done",
         \A d \in Executions \ {e} :
           registry'[d] = registry[d] /\ submission'[d] = submission[d],
         submission'[e] # "new",
         UNCHANGED registryVars \/ registryFile' = registry',
         IsSo(e)'
  PROVE  OutInv'
<1>1. \A q \in Approvers : approver[q].pc \notin Holding
  BY GovernedAssumption DEF OutInv, EInv, LoopIsHeld
<1>2. \A q \in Approvers : approver[q].pc \in Working => approver[q].exec \in Executions \ {e}
  <2>1. registry[e].state # "EXECUTING"
    BY DEF OutInv, IsSo, NoEntry
  <2>. QED
    BY <2>1 DEF OutInv, EInv, TInv, CoroutineHas, Working, IsFine
<1>3. ASSUME NEW q \in Approvers
      PROVE  IsFine(q)'
  <2>1. /\ IsFine(q) /\ EInv
        /\ approver[q].pc \in Working => submission[approver[q].exec] # "new"
    BY DEF OutInv, IsFine, Taken, Working
  <2>. QED
    BY <1>1, <1>2, <2>1, OtherIsFine
<1>4. \A d \in Executions \ {e} : IsSo(d)'
  BY OtherIsSo DEF OutInv
<1>5. RunsAlone' /\ FileFollows'
  BY DEF OutInv, RunsAlone, FileFollows, registryVars
<1>. QED
  BY <1>3, <1>4, <1>5 DEF OutInv

(* The registration of a new command. *)
LEMMA SubmitOut ==
  ASSUME DiskMayFail = FALSE, OutInv, EInv', SettlesOnce, NEW e \in Executions,
         Submit(e) \/ \E a \in Approvals : SubmitCreate(e, a)
  PROVE  OutInv'
<1>1. UNCHANGED <<approver, cache, dispatched>> /\ IsSo(e) /\ EInv
  BY DEF Submit, SubmitRaw, SubmitExecute, SubmitCreate, cacheVars, OutInv
<1>2. CASE \E a \in Approvals : SubmitCreate(e, a)
  <2>1. /\ loop = Free /\ submission[e] = "new" /\ UNCHANGED registryVars
        /\ submission'[e] = "created"
        /\ \A d \in Executions \ {e} : submission'[d] = submission[d]
    BY <1>2 DEF SubmitCreate, OutInv, EInv, TInv, TypeOK
  <2>2. IsSo(e)'
    BY <1>1, <2>1, OtherIsSo DEF registryVars
  <2>. QED
    BY <1>1, <2>1, <2>2, SubmissionOut DEF registryVars
<1>3. CASE Submit(e)
  <2>1. /\ submission[e] = "created" /\ loop = e
        /\ submission'[e] = "done"
        /\ \A d \in Executions \ {e} : submission'[d] = submission[d]
    BY <1>3 DEF Submit, SubmitRaw, SubmitExecute, OutInv, EInv, TInv, TypeOK, LoopIsHeld
  <2>2. Created(e) \in Approvals
    BY <1>1, <2>1, CreatedIsOurs DEF EInv, TInv, Recorded
  <2>3. /\ registry'[e].state \in {"NONE", "BLOCKED", registry[e].state}
        /\ registryFile' = registry'
        /\ \A d \in Executions \ {e} : registry'[d] = registry[d]
    BY <1>1, <1>3, <2>2, RegisterIs DEF Submit, SubmitRaw, SubmitExecute
  <2>4. registry[e] = NoEntry /\ registry[e].state = "absent"
    BY <1>1, <2>1 DEF IsSo, NoEntry
  <2>5. IsSo(e)'
    <3>1. CASE cache[e] = "none"
      BY <1>1, <2>1, <2>3, <2>4, <3>1 DEF IsSo
    <3>2. CASE cache[e] # "none"
      <4>1. cache[e] # "absent"
        BY <1>1 DEF EInv, TInv, TypeOK
      <4>2. /\ cache[e] = "BLOCKED" /\ ~Granted(e) /\ dispatched[e] = 0
            /\ \E a \in Bound(e) : approvals[a].status # "pending"
        BY <1>1, <2>4, <3>2, <4>1 DEF IsSo
      <4>3. PICK a \in Bound(e) : approvals[a].status # "pending"
        BY <4>2
      <4>4. a \in Bound(e)' /\ approvals'[a].status # "pending" /\ (Granted(e)' <=> Granted(e))
        BY <1>1, <4>3, DecidedStays
      <4>. QED
        BY <1>1, <2>1, <2>3, <2>4, <4>2, <4>4 DEF IsSo
    <3>. QED
      BY <3>1, <3>2
  <2>. QED
    BY <1>1, <2>1, <2>3, <2>5, SubmissionOut
<1>. QED
  BY <1>2, <1>3

(* The threads, the clock and the gate, and no step at all. *)
LEMMA AsideOut ==
  ASSUME OutInv, EInv', SettlesOnce,
         \/ \E t \in Rejecters : RejectRecord(t) \/ \E a \in Approvals : RejectDecide(t, a)
         \/ Elsewhere \/ Toggle \/ UNCHANGED vars
  PROVE  OutInv'
<1>1. UNCHANGED <<registry, registryFile, cache, submission, approver, dispatched>>
  BY DEF RejectRecord, RejectDecide, Elsewhere, Toggle, vars, registryVars, cacheVars
<1>2. ASSUME NEW q \in Approvers
      PROVE  IsFine(q)'
  <2>. DEFINE a == approver[q].approval
  <2>1. IsFine(q) /\ EInv
    BY DEF OutInv
  <2>2. approver[q].pc = "checked" => approvals'[a].exec = approvals[a].exec
    BY DEF OutInv, EInv, TInv, CoroutineHas, SettlesOnce
  <2>3. approver[q].pc \in Taken /\ a # NoApproval =>
          /\ Recorded(a)' /\ approvals'[a].exec = approver[q].exec
          /\ approvals'[a].status # "pending"
    BY <1>1, <2>1, OwnStays
  <2>4. CASE approver[q].pc # "finished"
    BY <1>1, <2>1, <2>2, <2>3, <2>4 DEF IsFine
  <2>5. CASE approver[q].pc = "finished" /\ a # NoApproval
    <3>. PICK e \in Executions, b \in Approvals : e = approver[q].exec /\ b = a
      BY <2>5 DEF OutInv, EInv, TInv, TypeOK, CoroutineHas, Coroutine
    <3>1. b \in Bound(e) /\ approvals[b].status # "pending"
      BY <2>1, <2>5 DEF IsFine, Taken, Bound, Recorded
    <3>2. Granted(e)' <=> Granted(e)
      BY <2>1, <3>1, DecidedStays
    <3>3. /\ registry'[e].state = registry[e].state /\ dispatched'[e] = dispatched[e]
          /\ submission'[e] = submission[e] /\ approver'[q] = approver[q]
      BY <1>1
    <3>. QED
      BY <2>1, <2>3, <2>5, <3>2, <3>3 DEF IsFine, Taken, Working
  <2>6. CASE approver[q].pc = "finished" /\ a = NoApproval
    BY <1>1, <2>1, <2>6 DEF IsFine, Taken, Working
  <2>. QED
    BY <2>4, <2>5, <2>6
<1>3. \A d \in Executions : IsSo(d)'
  BY <1>1, OtherIsSo DEF OutInv
<1>4. RunsAlone' /\ FileFollows'
  BY <1>1 DEF OutInv, RunsAlone, FileFollows
<1>. QED
  BY <1>2, <1>3, <1>4 DEF OutInv

(* A crash forgets the cache and the coroutines, and may tear the file. *)
LEMMA CrashOut ==
  ASSUME DiskMayFail = FALSE, OutInv, EInv', Crash
  PROVE  OutInv'
<1>1. /\ \A r \in Approvers : approver'[r].pc = "idle"
      /\ \A e \in Executions : /\ cache'[e] = "none" /\ dispatched'[e] = dispatched[e]
                               /\ submission'[e] \in {"new", "done"}
                               /\ submission'[e] = "new" => submission[e] = "new"
  BY DEF Crash, Idle
<1>2. PICK file \in {registryFile, Torn} :
        /\ registryFile' = file
        /\ registry' = IF file = Torn THEN [e \in Executions |-> NoEntry] ELSE file
  BY DEF Crash
<1>3. \A e \in Executions : registry'[e] \in {registry[e], NoEntry}
  BY <1>2 DEF OutInv, FileFollows
<1>4. \A r \in Approvers : IsFine(r)'
  BY <1>1 DEF IsFine, Taken, Working
<1>5. \A e \in Executions : IsSo(e)'
  BY <1>1, <1>3 DEF OutInv, IsSo, NoEntry
<1>6. RunsAlone' /\ FileFollows'
  BY <1>1, <1>2 DEF RunsAlone, FileFollows, Working
<1>. QED
  BY <1>4, <1>5, <1>6 DEF OutInv

-----------------------------------------------------------------------------
(* Nothing is registered, cached or taken up at first. *)
LEMMA InitOut == Init => OutInv
<1>. SUFFICES ASSUME Init
              PROVE  OutInv
  OBVIOUS
<1>1. EInv
  BY InitEInv
<1>2. /\ registryFile = registry /\ \A r \in Approvers : approver[r].pc = "idle"
      /\ \A e \in Executions : /\ registry[e] = NoEntry /\ dispatched[e] = 0
                               /\ cache[e] = "none"
  BY DEF Init, Idle
<1>. QED
  BY <1>1, <1>2 DEF OutInv, IsFine, Taken, Working, RunsAlone, IsSo, FileFollows, NoEntry

(* Every step. *)
LEMMA NextOut ==
  ASSUME DiskMayFail = FALSE, OutInv, [Next]_vars
  PROVE  OutInv' /\ SettlesOnce
<1>1. EInv' /\ SettlesOnce
  BY NextEInv, NextSettles DEF OutInv
<1>2. ASSUME NEW e \in Executions, Submit(e) \/ \E a \in Approvals : SubmitCreate(e, a)
      PROVE  OutInv'
  BY <1>1, <1>2, SubmitOut
<1>3. ASSUME NEW r \in Approvers, Proceed(r)
      PROVE  OutInv'
  <2>1. CASE ReturnLogged(r) \/ \E outcome \in Terminal : Return(r, outcome)
    BY <1>1, <2>1, ReturnOut DEF Terminal
  <2>. QED
    BY <1>1, <1>3, <2>1, ApproveDecideOut, ApproveRecordOut, ResumeOut, DispatchOut, AnswerOut
       DEF Proceed
<1>4. ASSUME NEW r \in Approvers,
             \/ \E a \in Approvals : ApproveBegin(r, a)
             \/ \E e \in Executions : Refresh(r, e)
      PROVE  OutInv'
  BY <1>1, <1>4, ApproveBeginOut, RefreshOut
<1>5. CASE \/ \E t \in Rejecters : RejectRecord(t) \/ \E a \in Approvals : RejectDecide(t, a)
           \/ Elsewhere \/ Toggle \/ UNCHANGED vars
  BY <1>1, <1>5, AsideOut
<1>6. CASE Crash
  BY <1>1, <1>6, CrashOut
<1>. QED
  BY <1>1, <1>2, <1>3, <1>4, <1>5, <1>6 DEF Next

(* What approve answers from its cache is final: as long as the approval file
   can be read and written, the answer agrees with the registry, or is that of
   a command that was refused before it was resumed. *)
THEOREM AnswersStand ==
  ASSUME DiskMayFail = FALSE
  PROVE  Spec => []CachedAnswerStands
<1>1. OutInv => CachedAnswerStands
  BY DEF OutInv, IsSo, CachedAnswerStands
<1>2. OutInv /\ [Next]_vars => OutInv'
  BY NextOut
<1>. QED
  BY <1>1, <1>2, InitOut, PTL DEF Spec

-----------------------------------------------------------------------------
(* Without a torn file the new process finds what the old one knew. *)
FileIsMemory == registryFile = registry

Ended(e) == registry[e].state \in {"COMPLETED", "FAILED"}

EndsOnce == \A e \in Executions : Ended(e) => registry'[e].state = registry[e].state

WritesUnended ==
  \/ UNCHANGED registryVars
  \/ \E e \in Executions : /\ ~Ended(e) /\ registryFile' = registry'
                           /\ \A d \in Executions \ {e} : registry'[d] = registry[d]

(* The registry is written only for an execution that has not ended. *)
LEMMA WrittenBeforeTheEnd ==
  ASSUME DiskMayFail = FALSE, MidWriteCrash = FALSE, OutInv, FileIsMemory, Next
  PROVE  WritesUnended
<1>1. ASSUME NEW e \in Executions, NEW entry, Put(e, entry), ~Ended(e)
      PROVE  WritesUnended
  <2>1. registryFile' = registry' /\ \A d \in Executions \ {e} : registry'[d] = registry[d]
    BY <1>1 DEF Put, OutInv, EInv, TInv, TypeOK, Entries
  <2>. QED
    BY <1>1, <2>1 DEF WritesUnended
<1>2. ASSUME NEW e \in Executions, ~Ended(e),
             \/ \E state \in {"NONE", "EXECUTING", "BLOCKED"} \cup Terminal :
                  \/ SetState(e, state)
                  \/ \E a \in Approvals \cup {NoApproval} : Register(e, state, a)
      PROVE  WritesUnended
  <2>1. \E entry : Put(e, entry)
    BY <1>2 DEF SetState, Register
  <2>. QED
    BY <1>1, <1>2, <2>1
<1>3. ASSUME NEW e \in Executions, Submit(e) \/ \E a \in Approvals : SubmitCreate(e, a)
      PROVE  WritesUnended
  <2>1. CASE \E a \in Approvals : SubmitCreate(e, a)
    BY <2>1 DEF SubmitCreate, WritesUnended
  <2>2. CASE Submit(e)
    <3>1. submission[e] = "created"
      BY <2>2 DEF Submit, SubmitRaw, SubmitExecute
    <3>2. ~Ended(e)
      BY <3>1 DEF OutInv, IsSo, Ended, NoEntry
    <3>3. Created(e) \in Approvals
      BY <3>1, CreatedIsOurs DEF OutInv, EInv, TInv, Recorded
    <3>. QED
      BY <1>2, <2>2, <3>2, <3>3 DEF Submit, SubmitRaw, SubmitExecute
  <2>. QED
    BY <1>3, <2>1, <2>2
<1>4. ASSUME NEW r \in Approvers, Proceed(r)
      PROVE  WritesUnended
  <2>1. CASE UNCHANGED registryVars
    BY <2>1 DEF WritesUnended
  <2>2. CASE Resume(r) /\ Register(approver[r].exec, "EXECUTING", NoApproval)
    <3>. PICK e \in Executions : e = approver[r].exec
      BY <2>2 DEF Resume, OutInv, EInv, TInv, CoroutineHas
    <3>1. dispatched[e] = 0
      BY <2>2 DEF Resume, OutInv, EInv, CoroutineIsFirst
    <3>2. ~Ended(e)
      BY <3>1 DEF OutInv, IsSo, Ended
    <3>. QED
      BY <1>2, <2>2, <3>2
  <2>3. CASE /\ approver[r].pc \in Working \cup {"cleared"}
             /\ \E state \in Terminal : SetState(approver[r].exec, state)
    <3>. PICK e \in Executions : e = approver[r].exec
      BY <2>3 DEF OutInv, EInv, TInv, CoroutineHas, Working
    <3>1. ~Ended(e)
      BY <2>3 DEF OutInv, IsFine, Ended
    <3>. QED
      BY <1>2, <2>3, <3>1
  <2>. QED
    BY <1>4, <2>1, <2>2, <2>3 DEF Proceed, ApproveDecide, ApproveRecord, Resume, Dispatch, Return,
                                  ReturnLogged, Answer, Terminal, Working
<1>5. ASSUME NEW r \in Approvers,
             \/ \E a \in Approvals : ApproveBegin(r, a)
             \/ \E e \in Executions : Refresh(r, e)
      PROVE  WritesUnended
  <2>1. CASE \E a \in Approvals : ApproveBegin(r, a)
    BY <2>1 DEF ApproveBegin, WritesUnended
  <2>2. ASSUME NEW e \in Executions, Refresh(r, e)
        PROVE  WritesUnended
    <3>1. ~Ended(e) /\ Register(e, "EXECUTING", NoApproval)
      BY <2>2 DEF Refresh, OutInv, IsSo, Ended, NoEntry
    <3>. QED
      BY <1>2, <3>1
  <2>. QED
    BY <1>5, <2>1, <2>2
<1>6. CASE Crash
  <2>1. registryFile # Torn
    BY TornAssumption DEF OutInv, EInv, TInv, TypeOK, FileIsMemory
  <2>2. registryFile' = registryFile /\ registry' = registryFile
    BY <1>6, <2>1 DEF Crash
  <2>. QED
    BY <2>2 DEF WritesUnended, FileIsMemory, registryVars
<1>7. CASE \/ \E t \in Rejecters : RejectRecord(t) \/ \E a \in Approvals : RejectDecide(t, a)
           \/ Elsewhere \/ Toggle
  BY <1>7 DEF RejectRecord, RejectDecide, Elsewhere, Toggle, WritesUnended
<1>. QED
  BY <1>3, <1>4, <1>5, <1>6, <1>7 DEF Next

(* So an end is final, and the file goes on following. *)
LEMMA NextEnds ==
  ASSUME DiskMayFail = FALSE, MidWriteCrash = FALSE, OutInv, FileIsMemory, [Next]_vars
  PROVE  FileIsMemory' /\ EndsOnce
<1>1. CASE Next
  BY <1>1, WrittenBeforeTheEnd DEF WritesUnended, FileIsMemory, EndsOnce, registryVars
<1>2. CASE UNCHANGED vars
  BY <1>2 DEF vars, registryVars, FileIsMemory, EndsOnce
<1>. QED
  BY <1>1, <1>2

(* An execution that has completed or failed is never executing again, blocked
   again or forgotten, in memory or by a restart, as long as no write of the
   registry file is lost or cut: such a file forgets every execution. *)
THEOREM FinishedIsFinal ==
  ASSUME DiskMayFail = FALSE, MidWriteCrash = FALSE
  PROVE  Spec => FinishedStaysFinished
<1>1. Init => OutInv /\ FileIsMemory
  BY InitOut DEF Init, FileIsMemory
<1>2. OutInv /\ FileIsMemory /\ [Next]_vars => (OutInv /\ FileIsMemory)'
  BY NextOut, NextEnds
<1>3. OutInv /\ FileIsMemory /\ [Next]_vars =>
        [\A e \in Executions :
           registry[e].state \in {"COMPLETED", "FAILED"}
             => registry'[e].state = registry[e].state]_vars
  BY NextEnds DEF EndsOnce, Ended
<1>. QED
  BY <1>1, <1>2, <1>3, PTL DEF Spec, FinishedStaysFinished

-----------------------------------------------------------------------------
(* The index names the decision of the execution's own approval. *)
IndexIsOwn ==
  \A e \in Executions :
    decisionOf[e] # NoApproval =>
      Recorded(decisionOf[e]) /\ approvals[decisionOf[e]].exec = e

(* A refusal under way is of an approval that exists. *)
RefusesKnown == \A t \in Rejecters : rejecter[t].pc = "decided" => Recorded(rejecter[t].approval)

DecInv == OutInv /\ FileIsMemory /\ RefusesKnown /\ IndexIsOwn /\ RecordedOutcomeIsReal

(* What a decision record reports stays so while it is left alone. *)
LEMMA ReportStays ==
  ASSUME DecInv, SettlesOnce, EndsOnce, NEW a \in Approvals, decisions'[a] = decisions[a],
         decisions'[a].result \in {"success", "fail"}
  PROVE  /\ approvals'[a].status = "approved"
         /\ registry'[approvals'[a].exec].state =
              (IF decisions'[a].result = "success" THEN "COMPLETED" ELSE "FAILED")
<1>1. /\ approvals[a].status = "approved"
      /\ registry[approvals[a].exec].state =
           (IF decisions[a].result = "success" THEN "COMPLETED" ELSE "FAILED")
  BY DEF DecInv, RecordedOutcomeIsReal
<1>2. Recorded(a)
  BY <1>1 DEF Recorded, Store!NoRecord
<1>3. approvals[a].exec \in Executions
  BY <1>2 DEF DecInv, OutInv, EInv, OneApproval, Commands
<1>. QED
  BY <1>1, <1>2, <1>3 DEF SettlesOnce, EndsOnce, Ended

(* The records left alone. *)
LEMMA RestDec ==
  ASSUME DecInv, SettlesOnce, EndsOnce, UNCHANGED decisionVars
  PROVE  IndexIsOwn' /\ RecordedOutcomeIsReal'
<1>1. IndexIsOwn'
  BY DEF DecInv, IndexIsOwn, SettlesOnce, decisionVars, OutInv, EInv, TInv, TypeOK
<1>2. RecordedOutcomeIsReal'
  BY ReportStays DEF RecordedOutcomeIsReal, decisionVars
<1>. QED
  BY <1>1, <1>2

(* A decision recorded for an approval that exists. *)
LEMMA DecisionDec ==
  ASSUME DecInv, SettlesOnce, EndsOnce, NEW a \in Approvals, Recorded(a),
         NEW accepted \in BOOLEAN, RecordDecision(a, accepted)
  PROVE  IndexIsOwn' /\ RecordedOutcomeIsReal'
<1>1. CASE UNCHANGED decisionVars
  BY <1>1, RestDec
<1>2. CASE /\ decisions' = [decisions EXCEPT ![a] =
                 [accepted |-> accepted, result |-> IF accepted THEN "unknown" ELSE "not_executed"]]
           /\ decisionOf' = [decisionOf EXCEPT ![approvals[a].exec] = a]
  <2>1. /\ decisions'[a].result \notin {"success", "fail"}
        /\ \A b \in Approvals \ {a} : decisions'[b] = decisions[b]
    BY <1>2 DEF DecInv, OutInv, EInv, TInv, TypeOK
  <2>2. RecordedOutcomeIsReal'
    BY <2>1, ReportStays DEF RecordedOutcomeIsReal
  <2>3. IndexIsOwn'
    BY <1>2 DEF DecInv, IndexIsOwn, SettlesOnce, OutInv, EInv, TInv, TypeOK
  <2>. QED
    BY <2>2, <2>3
<1>. QED
  BY <1>1, <1>2 DEF RecordDecision

(* The outcome of an execution is recorded on the decision that granted it. *)
LEMMA AnswerDec ==
  ASSUME DecInv, SettlesOnce, EndsOnce, NEW r \in Approvers, Answer(r)
  PROVE  IndexIsOwn' /\ RecordedOutcomeIsReal'
<1>. DEFINE e == approver[r].exec
            a == approver[r].approval
            result == approver[r].result
            b == decisionOf[e]
<1>1. CASE UNCHANGED decisionVars
  BY <1>1, RestDec
<1>2. CASE a # NoApproval /\ b # NoApproval /\ RecordOutcome(e, result)
  <2>1. e \in Executions /\ b \in Approvals /\ Recorded(b) /\ approvals[b].exec = e
    BY <1>2 DEF Answer, DecInv, IndexIsOwn, OutInv, EInv, TInv, TypeOK, CoroutineHas
  <2>2. UNCHANGED <<approvals, registry>>
    BY DEF Answer, storeVars, registryVars
  <2>. DEFINE reported == CASE result = "FAILED"    -> "fail"
                            [] result = "COMPLETED" -> "success"
                            [] result = "BLOCKED"   -> "not_executed"
  <2>3. decisions' = [decisions EXCEPT ![b].result = reported] /\ decisionOf' = decisionOf
    BY <1>2 DEF RecordOutcome
  <2>4. result \in Terminal
    BY DEF Answer, DecInv, OutInv, EInv, TInv, CoroutineHas
  <2>5. reported \in {"success", "fail"} =>
          /\ approvals[b].status = "approved"
          /\ registry[e].state = (IF reported = "success" THEN "COMPLETED" ELSE "FAILED")
    <3>. SUFFICES ASSUME reported \in {"success", "fail"}
                  PROVE  /\ approvals[b].status = "approved"
                         /\ registry[e].state = (IF reported = "success" THEN "COMPLETED" ELSE "FAILED")
      OBVIOUS
    <3>1. /\ result = (IF reported = "success" THEN "COMPLETED" ELSE "FAILED")
          /\ result # "BLOCKED"
      BY <2>4 DEF Terminal
    <3>2. registry[e].state = result /\ dispatched[e] > 0
      BY <3>1 DEF Answer, DecInv, OutInv, IsFine
    <3>3. Granted(e)
      BY <2>1, <3>2 DEF DecInv, OutInv, EInv, OneApproval, EffectsAreGranted
    <3>. QED
      BY <2>1, <3>1, <3>2, <3>3 DEF Granted, Bound, Recorded, DecInv, OutInv, EInv, OneApproval
  <2>6. /\ \A c \in Approvals \ {b} : decisions'[c] = decisions[c]
        /\ decisions'[b].result \in {"success", "fail"} => decisions'[b].result = reported
    <3>. HIDE DEF reported
    <3>1. decisions[b] \in Decision => decisions'[b].result = reported
      BY <2>1, <2>3 DEF DecInv, OutInv, EInv, TInv, TypeOK, Decision
    <3>2. decisions[b] # NoDecision
      BY <1>2, <2>1 DEF DecInv, OutInv, EInv, TInv, IndexIsRecorded
    <3>. QED
      BY <2>1, <2>3, <3>1, <3>2 DEF DecInv, OutInv, EInv, TInv, TypeOK
  <2>7. RecordedOutcomeIsReal'
    <3>1. ASSUME NEW c \in Approvals, decisions'[c].result \in {"success", "fail"}
          PROVE  /\ approvals'[c].status = "approved"
                 /\ registry'[approvals'[c].exec].state =
                      (IF decisions'[c].result = "success" THEN "COMPLETED" ELSE "FAILED")
      <4>. HIDE DEF reported
      <4>1. CASE c = b
        BY <2>1, <2>2, <2>5, <2>6, <3>1, <4>1
      <4>2. CASE c # b
        BY <2>6, <3>1, <4>2, ReportStays
      <4>. QED
        BY <4>1, <4>2
    <3>. QED
      BY <3>1 DEF RecordedOutcomeIsReal
  <2>8. IndexIsOwn'
    BY <2>2, <2>3 DEF DecInv, IndexIsOwn, Recorded
  <2>. QED
    BY <2>7, <2>8
<1>. QED
  BY <1>1, <1>2 DEF Answer, RecordOutcome, decisionVars

(* Every step. *)
LEMMA NextDec ==
  ASSUME DiskMayFail = FALSE, MidWriteCrash = FALSE, DecInv, [Next]_vars
  PROVE  DecInv'
<1>1. OutInv' /\ FileIsMemory' /\ EndsOnce /\ SettlesOnce
  BY NextOut, NextEnds, NextSettles DEF DecInv, OutInv
<1>2. ASSUME NEW r \in Approvers, ApproveRecord(r)
      PROVE  IndexIsOwn' /\ RecordedOutcomeIsReal'
  <2>1. approver[r].approval \in Approvals /\ Recorded(approver[r].approval)
    BY <1>2 DEF ApproveRecord, DecInv, OutInv, EInv, TInv, CoroutineHas, Recorded
  <2>. QED
    BY <1>1, <1>2, <2>1, DecisionDec DEF ApproveRecord
<1>3. ASSUME NEW t \in Rejecters, RejectRecord(t)
      PROVE  IndexIsOwn' /\ RecordedOutcomeIsReal'
  <2>1. rejecter[t].approval \in Approvals /\ Recorded(rejecter[t].approval)
    BY <1>3 DEF RejectRecord, DecInv, RefusesKnown, OutInv, EInv, TInv, ThreadHas
  <2>. QED
    BY <1>1, <1>3, <2>1, DecisionDec DEF RejectRecord
<1>4. ASSUME NEW r \in Approvers, Answer(r)
      PROVE  IndexIsOwn' /\ RecordedOutcomeIsReal'
  BY <1>1, <1>4, AnswerDec
<1>5. \/ UNCHANGED decisionVars
      \/ \E r \in Approvers : ApproveRecord(r) \/ Answer(r)
      \/ \E t \in Rejecters : RejectRecord(t)
  <2>1. ASSUME NEW r \in Approvers, Proceed(r)
        PROVE  UNCHANGED decisionVars \/ ApproveRecord(r) \/ Answer(r)
    BY <2>1 DEF Proceed, ApproveDecide, Resume, Dispatch, Return, ReturnLogged
  <2>. QED
    BY <2>1 DEF Next, Submit, SubmitRaw, SubmitExecute, SubmitCreate, ApproveBegin, Refresh,
                RejectDecide, Elsewhere, Toggle, Crash, vars
<1>6. IndexIsOwn' /\ RecordedOutcomeIsReal'
  BY <1>1, <1>2, <1>3, <1>4, <1>5, RestDec
<1>7. RefusesKnown'
  <2>1. UNCHANGED rejecter => RefusesKnown'
    BY <1>1 DEF DecInv, RefusesKnown, SettlesOnce, OutInv, EInv, TInv, ThreadHas
  <2>2. ASSUME NEW t \in Rejecters, NEW a \in Approvals, RejectDecide(t, a)
        PROVE  RefusesKnown'
    <3>1. rejecter' = [rejecter EXCEPT ![t] =
            [pc |-> IF approvals[a] = Store!NoRecord THEN "done" ELSE "decided", approval |-> a]]
      BY <2>2 DEF RejectDecide
    <3>2. rejecter'[t].pc = "decided" => Recorded(a) /\ rejecter'[t].approval = a
      BY <3>1 DEF DecInv, OutInv, EInv, TInv, TypeOK, Recorded
    <3>. QED
      BY <1>1, <3>1, <3>2 DEF DecInv, RefusesKnown, SettlesOnce, OutInv, EInv, TInv, TypeOK, ThreadHas
  <2>3. ASSUME NEW t \in Rejecters, RejectRecord(t)
        PROVE  RefusesKnown'
    <3>1. rejecter' = [rejecter EXCEPT ![t].pc = "done"]
      BY <2>3 DEF RejectRecord
    <3>. QED
      BY <1>1, <3>1 DEF DecInv, RefusesKnown, SettlesOnce, OutInv, EInv, TInv, TypeOK, ThreadHas
  <2>4. Crash => RefusesKnown'
    BY DEF Crash, RefusesKnown
  <2>5. ASSUME NEW r \in Approvers, Proceed(r)
        PROVE  UNCHANGED rejecter
    BY <2>5 DEF Proceed, ApproveDecide, ApproveRecord, Resume, Dispatch, Return, ReturnLogged,
                Answer
  <2>6. \/ UNCHANGED rejecter \/ Crash
        \/ \E t \in Rejecters : RejectRecord(t) \/ \E a \in Approvals : RejectDecide(t, a)
    BY <2>5 DEF Next, Submit, SubmitRaw, SubmitExecute, SubmitCreate, ApproveBegin, Refresh,
                Elsewhere, Toggle, vars
  <2>. QED
    BY <2>1, <2>2, <2>3, <2>4, <2>6
<1>. QED
  BY <1>1, <1>6, <1>7 DEF DecInv

(* A decision record that reports an execution reports what the registry says
   of it, and of an approval that was granted: nobody else's outcome ends up on
   it, and what it reports is not undone later. *)
THEOREM OutcomesAreReal ==
  ASSUME DiskMayFail = FALSE, MidWriteCrash = FALSE
  PROVE  Spec => []RecordedOutcomeIsReal
<1>1. Init => DecInv
  BY InitOut DEF Init, DecInv, FileIsMemory, RefusesKnown, IndexIsOwn, RecordedOutcomeIsReal, NoDecision
<1>2. DecInv /\ [Next]_vars => DecInv'
  BY NextDec
<1>3. DecInv => RecordedOutcomeIsReal
  BY DEF DecInv
<1>. QED
  BY <1>1, <1>2, <1>3, PTL DEF Spec

-----------------------------------------------------------------------------
(* What was accepted and answered as not executed; a coroutine that could
   still start the executor of its approval; an approval that is decided. *)
Declined(a) == decisions[a].result = "not_executed" /\ decisions[a].accepted
Deciding    == {"checked", "decided", "recorded", "cleared"}
Settled(a)  == Recorded(a) /\ approvals[a].status # "pending"

(* Only decided approvals are recorded, no coroutine takes up one that was
   answered as not executed, and a refresh is no command. *)
DeclInv ==
  /\ OutInv
  /\ \A a \in Approvals, t \in Rejecters :
       rejecter[t].pc = "decided" /\ rejecter[t].approval = a => Settled(a)
  /\ \A a \in Approvals : decisions[a] # NoDecision => Settled(a)
  /\ \A r \in Approvers :
       approver[r].pc = "cleared" /\ approver[r].approval = NoApproval
         => approver[r].exec \notin Commands
  /\ \A a \in Approvals, r \in Approvers :
       Declined(a) /\ approver[r].approval = a => approver[r].pc \notin Deciding

(* What a coroutine past its first look makes of itself. *)
LEMMA ProceedMoves ==
  ASSUME TInv, NEW r \in Approvers, Proceed(r)
  PROVE  /\ approver'[r].approval = approver[r].approval
         /\ approver'[r].pc \in Deciding => approver[r].pc \in Deciding
         /\ approver'[r].pc = "cleared" => approver[r].pc = "recorded"
<1>1. approver[r] \in Coroutine /\ approver \in [Approvers -> Coroutine]
  BY DEF TInv, TypeOK
<1>2. CASE ApproveDecide(r)
  BY <1>1, <1>2 DEF ApproveDecide, Deciding, Coroutine
<1>3. CASE ApproveRecord(r)
  BY <1>1, <1>3 DEF ApproveRecord, Deciding, Coroutine
<1>4. CASE Resume(r)
  BY <1>1, <1>4 DEF Resume, Deciding, Coroutine
<1>5. CASE Dispatch(r)
  BY <1>1, <1>5 DEF Dispatch, Deciding, Coroutine
<1>6. ASSUME NEW outcome \in Terminal, Return(r, outcome)
      PROVE  approver'[r].approval = approver[r].approval /\ approver'[r].pc \notin Deciding
  BY <1>1, <1>6 DEF Return, Deciding, Coroutine
<1>7. CASE ReturnLogged(r)
  BY <1>1, <1>7 DEF ReturnLogged, Deciding, Coroutine
<1>8. CASE Answer(r)
  BY <1>1, <1>8 DEF Answer, Deciding, Coroutine
<1>. QED
  BY <1>2, <1>3, <1>4, <1>5, <1>6, <1>7, <1>8 DEF Proceed, Deciding

(* An approval is taken up only while it is pending. *)
LEMMA TakenUpPending ==
  ASSUME TInv, Next, NEW q \in Approvers, approver'[q].pc \in Deciding,
         approver'[q].approval \in Approvals
  PROVE  \/ approver[q].approval = approver'[q].approval /\ approver[q].pc \in Deciding
         \/ Store!Current[approver'[q].approval].status = "pending"
<1>1. CASE approver'[q] = approver[q]
  BY <1>1
<1>2. CASE Proceed(q)
  BY <1>2, ProceedMoves
<1>3. ASSUME NEW a \in Approvals, ApproveBegin(q, a)
      PROVE  Store!Current[approver'[q].approval].status = "pending"
  <2>. DEFINE cached == a \in linked /\ cache[approvals[a].exec] # "none"
              open   == ~cached /\ Store!Current[a].status = "pending"
  <2>1. approver' = [approver EXCEPT ![q] =
                       [Idle EXCEPT !.pc = IF open THEN "checked" ELSE "done", !.approval = a]]
    BY <1>3 DEF ApproveBegin
  <2>2. approver'[q] = [Idle EXCEPT !.pc = IF open THEN "checked" ELSE "done", !.approval = a]
    BY <2>1 DEF TInv, TypeOK
  <2>3. approver'[q].approval = a /\ (~open => approver'[q].pc = "done")
    BY <2>2 DEF Idle
  <2>. QED
    BY <2>3 DEF Deciding
<1>4. ASSUME NEW e \in Executions, Refresh(q, e)
      PROVE  FALSE
  BY <1>4, GovernedAssumption DEF Refresh, Idle, TInv, TypeOK
<1>5. CASE Crash
  BY <1>5 DEF Crash, Idle, Deciding
<1>6. \/ Crash \/ approver'[q] = approver[q] \/ Proceed(q)
      \/ \E a \in Approvals : ApproveBegin(q, a)
      \/ \E e \in Executions : Refresh(q, e)
  <2>1. ASSUME NEW r \in Approvers, r # q,
               \/ Proceed(r) \/ \E a \in Approvals : ApproveBegin(r, a)
               \/ \E e \in Executions : Refresh(r, e)
        PROVE  approver'[q] = approver[q]
    BY <2>1 DEF Proceed, ApproveDecide, ApproveRecord, Resume, Dispatch, Return, ReturnLogged,
                Answer, ApproveBegin, Refresh, TInv, TypeOK
  <2>. QED
    BY <2>1 DEF Next, Submit, SubmitRaw, SubmitExecute, SubmitCreate, RejectRecord, RejectDecide,
                Elsewhere, Toggle
<1>. QED
  BY <1>1, <1>2, <1>3, <1>4, <1>5, <1>6

(* A coroutine that is cleared without an approval runs a refresh. *)
LEMMA RefreshIsNoCommand ==
  ASSUME TInv, Next, NEW q \in Approvers,
         approver'[q].pc = "cleared", approver'[q].approval = NoApproval,
         approver[q].pc = "cleared" /\ approver[q].approval = NoApproval
           => approver[q].exec \notin Commands
  PROVE  approver'[q].exec \notin Commands
<1>1. CASE approver'[q] = approver[q]
  BY <1>1
<1>2. CASE Proceed(q)
  <2>1. approver[q].pc \in {"checked", "decided", "recorded"} => approver[q].approval # NoApproval
    BY GovernedAssumption DEF TInv, CoroutineHas
  <2>. QED
    BY <1>2, <2>1, ProceedMoves
<1>3. ASSUME NEW a \in Approvals, ApproveBegin(q, a)
      PROVE  FALSE
  BY <1>3 DEF ApproveBegin, Idle, TInv, TypeOK
<1>4. ASSUME NEW e \in Executions, Refresh(q, e)
      PROVE  approver'[q].exec \notin Commands
  <2>1. approver' = [approver EXCEPT ![q] = [Idle EXCEPT !.pc = "cleared", !.exec = e]]
    BY <1>4 DEF Refresh
  <2>2. approver'[q].exec = e
    BY <2>1 DEF Idle, TInv, TypeOK
  <2>. QED
    BY <1>4, <2>2 DEF Refresh, Commands
<1>5. ~Crash
  BY DEF Crash, Idle
<1>6. \/ approver'[q] = approver[q] \/ Proceed(q)
      \/ \E a \in Approvals : ApproveBegin(q, a)
      \/ \E e \in Executions : Refresh(q, e)
  <2>1. ASSUME NEW r \in Approvers, r # q,
               \/ Proceed(r) \/ \E a \in Approvals : ApproveBegin(r, a)
               \/ \E e \in Executions : Refresh(r, e)
        PROVE  approver'[q] = approver[q]
    BY <2>1 DEF Proceed, ApproveDecide, ApproveRecord, Resume, Dispatch, Return, ReturnLogged,
                Answer, ApproveBegin, Refresh, TInv, TypeOK
  <2>. QED
    BY <1>5, <2>1 DEF Next, Submit, SubmitRaw, SubmitExecute, SubmitCreate, RejectRecord,
                      RejectDecide, Elsewhere, Toggle
<1>. QED
  BY <1>1, <1>2, <1>3, <1>4, <1>6

(* What a step makes of the decision records. *)
LEMMA RecordsSettle ==
  ASSUME DeclInv, SettlesOnce, Next
  PROVE  /\ \A a \in Approvals : decisions'[a] # NoDecision => Settled(a)'
         /\ \A a \in Approvals : Declined(a)' => Declined(a) \/ \E r \in Approvers : Answer(r)
<1>1. ASSUME NEW a \in Approvals, Settled(a)
      PROVE  Settled(a)'
  BY <1>1 DEF Settled, SettlesOnce
<1>2. CASE UNCHANGED decisionVars
  BY <1>1, <1>2 DEF DeclInv, decisionVars, Declined
<1>3. ASSUME NEW a \in Approvals, Settled(a), NEW accepted \in BOOLEAN,
             RecordDecision(a, accepted)
      PROVE  /\ \A b \in Approvals : decisions'[b] # NoDecision => Settled(b)'
             /\ \A b \in Approvals : Declined(b)' => Declined(b)
  <2>1. CASE UNCHANGED decisionVars
    BY <1>1, <2>1 DEF DeclInv, decisionVars, Declined
  <2>2. CASE decisions' = [decisions EXCEPT ![a] =
               [accepted |-> accepted, result |-> IF accepted THEN "unknown" ELSE "not_executed"]]
    <3>1. /\ decisions'[a].accepted = accepted
          /\ decisions'[a].result = (IF accepted THEN "unknown" ELSE "not_executed")
          /\ \A b \in Approvals \ {a} : decisions'[b] = decisions[b]
      BY <2>2 DEF DeclInv, OutInv, EInv, TInv, TypeOK
    <3>2. ASSUME NEW b \in Approvals
          PROVE  (decisions'[b] # NoDecision => Settled(b)') /\ (Declined(b)' => Declined(b))
      <4>1. CASE b = a
        BY <1>1, <1>3, <3>1, <4>1 DEF Declined
      <4>2. CASE b # a
        BY <1>1, <3>1, <4>2 DEF DeclInv, Declined
      <4>. QED
        BY <4>1, <4>2
    <3>. QED
      BY <3>2
  <2>. QED
    BY <1>3, <2>1, <2>2 DEF RecordDecision
<1>4. ASSUME NEW r \in Approvers, ApproveRecord(r)
      PROVE  approver[r].approval \in Approvals /\ Settled(approver[r].approval)
  <2>1. approver[r].approval \in Approvals /\ approver[r].approval # NoApproval
    BY <1>4, GovernedAssumption DEF ApproveRecord, DeclInv, OutInv, EInv, TInv, CoroutineHas
  <2>2. IsFine(r) /\ approver[r].pc = "decided"
    BY <1>4 DEF ApproveRecord, DeclInv, OutInv
  <2>. QED
    BY <2>1, <2>2 DEF IsFine, Taken, Settled
<1>5. ASSUME NEW t \in Rejecters, RejectRecord(t)
      PROVE  rejecter[t].approval \in Approvals /\ Settled(rejecter[t].approval)
  BY <1>5 DEF RejectRecord, DeclInv, OutInv, EInv, TInv, ThreadHas
<1>6. ASSUME NEW r \in Approvers, Answer(r), ~UNCHANGED decisionVars
      PROVE  \A b \in Approvals : decisions'[b] # NoDecision => Settled(b)'
  <2>. DEFINE c == decisionOf[approver[r].exec]
  <2>1. c \in Approvals /\ decisions[c] # NoDecision
    BY <1>6 DEF Answer, RecordOutcome, decisionVars, DeclInv, OutInv, EInv, TInv, TypeOK,
                CoroutineHas, IndexIsRecorded
  <2>2. \A b \in Approvals \ {c} : decisions'[b] = decisions[b]
    BY <1>6, <2>1 DEF Answer, RecordOutcome, decisionVars, DeclInv, OutInv, EInv, TInv, TypeOK
  <2>. QED
    BY <1>1, <2>1, <2>2 DEF DeclInv
<1>7. \/ UNCHANGED decisionVars
      \/ \E r \in Approvers : ApproveRecord(r) \/ Answer(r)
      \/ \E t \in Rejecters : RejectRecord(t)
  <2>1. ASSUME NEW r \in Approvers, Proceed(r)
        PROVE  UNCHANGED decisionVars \/ ApproveRecord(r) \/ Answer(r)
    BY <2>1 DEF Proceed, ApproveDecide, Resume, Dispatch, Return, ReturnLogged
  <2>. QED
    BY <2>1 DEF Next, Submit, SubmitRaw, SubmitExecute, SubmitCreate, ApproveBegin, Refresh,
                RejectDecide, Elsewhere, Toggle, Crash
<1>8. CASE \E r \in Approvers : ApproveRecord(r)
  BY <1>3, <1>4, <1>8 DEF ApproveRecord
<1>9. CASE \E t \in Rejecters : RejectRecord(t)
  BY <1>3, <1>5, <1>9 DEF RejectRecord
<1>10. CASE \E r \in Approvers : Answer(r)
  BY <1>2, <1>6, <1>10
<1>. QED
  BY <1>2, <1>7, <1>8, <1>9, <1>10

(* A rejection leaves its approval decided. *)
LEMMA RejectSettles ==
  ASSUME TInv, NEW t \in Rejecters, NEW a \in Approvals, RejectDecide(t, a)
  PROVE  rejecter'[t].approval = a /\ (rejecter'[t].pc = "decided" => Settled(a)')
<1>1. rejecter' = [rejecter EXCEPT ![t] =
        [pc |-> IF approvals[a] = Store!NoRecord THEN "done" ELSE "decided", approval |-> a]]
  BY DEF RejectDecide
<1>2. rejecter'[t].approval = a /\ (rejecter'[t].pc = "decided" => Recorded(a))
  BY <1>1 DEF TInv, TypeOK, Recorded
<1>3. approvals' = IF Store!Current[a].status = "pending"
                     THEN [Store!Current EXCEPT ![a].status = "rejected"] ELSE Store!Current
  BY DEF RejectDecide, Store!Reject, Store!Commit
<1>4. Store!Current \in Store!Store /\ (Recorded(a) => Store!Current[a] # Store!NoRecord)
  BY CurrentKeeps DEF TInv, TypeOK, Recorded
<1>5. Recorded(a) => Settled(a)'
  BY <1>3, <1>4 DEF Settled, Recorded, Store!Store, Store!Record, Store!NoRecord
<1>. QED
  BY <1>2, <1>5

(* Every step. *)
LEMMA NextDecl ==
  ASSUME DiskMayFail = FALSE, DeclInv, Next
  PROVE  DeclInv'
<1>1. OutInv /\ EInv /\ TInv
  BY DEF DeclInv, OutInv, EInv
<1>2. OutInv' /\ SettlesOnce
  BY <1>1, NextOut, NextSettles
<1>3. ASSUME NEW t \in Rejecters, NEW b \in Approvals, rejecter'[t].pc = "decided",
             rejecter'[t].approval = b
      PROVE  Settled(b)'
  <2>1. CASE rejecter'[t] = rejecter[t]
    <3>1. Settled(b)
      BY <1>3, <2>1 DEF DeclInv
    <3>. QED
      BY <1>2, <3>1 DEF Settled, SettlesOnce
  <2>2. CASE \E a \in Approvals : RejectDecide(t, a)
    BY <1>1, <1>3, <2>2, RejectSettles
  <2>3. ~RejectRecord(t) /\ ~Crash
    <3>1. RejectRecord(t) => rejecter'[t].pc = "done"
      BY <1>1 DEF RejectRecord, TInv, TypeOK
    <3>2. Crash => rejecter'[t].pc = "idle"
      BY DEF Crash
    <3>. QED
      BY <1>3, <3>1, <3>2
  <2>4. ASSUME NEW s \in Rejecters, s # t,
               RejectRecord(s) \/ \E a \in Approvals : RejectDecide(s, a)
        PROVE  rejecter'[t] = rejecter[t]
    BY <1>1, <2>4 DEF RejectRecord, RejectDecide, TInv, TypeOK
  <2>5. ASSUME NEW r \in Approvers, Proceed(r)
        PROVE  UNCHANGED rejecter
    BY <2>5 DEF Proceed, ApproveDecide, ApproveRecord, Resume, Dispatch, Return, ReturnLogged,
                Answer
  <2>6. rejecter'[t] = rejecter[t] \/ \E a \in Approvals : RejectDecide(t, a)
    BY <2>3, <2>4, <2>5 DEF Next, Submit, SubmitRaw, SubmitExecute, SubmitCreate, ApproveBegin,
                            Refresh, Elsewhere, Toggle
  <2>. QED
    BY <2>1, <2>2, <2>6
<1>4. ASSUME NEW a \in Approvals, NEW q \in Approvers, Declined(a)', approver'[q].approval = a
      PROVE  approver'[q].pc \notin Deciding
  <2>1. CASE Declined(a)
    <3>1. Store!Current[a].status # "pending"
      <4>1. Settled(a)
        BY <2>1 DEF DeclInv, Declined, NoDecision
      <4>. QED
        BY <1>1, <4>1, CurrentSettles DEF Settled, TInv, TypeOK
    <3>. QED
      BY <1>1, <1>4, <2>1, <3>1, TakenUpPending DEF DeclInv
  <2>2. ASSUME NEW r \in Approvers, Answer(r)
        PROVE  approver'[q].pc \notin Deciding
    <3>1. loop = r /\ approver' = [approver EXCEPT ![r].pc = "done"]
      BY <1>1, <2>2 DEF Answer, EInv, LoopIsHeld, Holding
    <3>2. \A p \in Approvers \ {r} : approver[p].pc \notin Holding
      BY <1>1, <3>1, HolderIsAlone
    <3>3. approver'[r].pc = "done" /\ \A p \in Approvers \ {r} : approver'[p] = approver[p]
      BY <1>1, <3>1 DEF TInv, TypeOK
    <3>. QED
      BY <3>2, <3>3 DEF Holding, Deciding
  <2>. QED
    BY <1>2, <1>4, <2>1, <2>2, RecordsSettle
<1>5. ASSUME NEW q \in Approvers, approver'[q].pc = "cleared", approver'[q].approval = NoApproval
      PROVE  approver'[q].exec \notin Commands
  BY <1>1, <1>5, RefreshIsNoCommand DEF DeclInv
<1>. QED
  BY <1>1, <1>2, <1>3, <1>4, <1>5, RecordsSettle DEF DeclInv, Commands

(* A step starts no executor for what was answered as not executed. *)
LEMMA DeclinedIsLeft ==
  ASSUME DeclInv, [Next]_vars, NEW a \in Approvals, Declined(a)
  PROVE  dispatched'[approvals[a].exec] = dispatched[approvals[a].exec]
<1>1. CASE UNCHANGED dispatched
  BY <1>1
<1>2. ASSUME NEW r \in Approvers, Dispatch(r), ~UNCHANGED dispatched
      PROVE  dispatched'[approvals[a].exec] = dispatched[approvals[a].exec]
  <2>. DEFINE e == approver[r].exec  b == approver[r].approval
  <2>1. /\ approver[r].pc = "cleared" /\ e \in Executions
        /\ dispatched' = [dispatched EXCEPT ![e] = @ + 1]
    BY <1>2 DEF Dispatch, DeclInv, OutInv, EInv, TInv, CoroutineHas
  <2>2. b # a
    BY <2>1 DEF DeclInv, Deciding
  <2>3. Recorded(a) /\ approvals[a].exec \in Commands
    BY DEF DeclInv, Declined, NoDecision, Settled, OutInv, EInv, OneApproval
  <2>4. e # approvals[a].exec
    <3>1. CASE b = NoApproval
      BY <2>1, <2>3, <3>1 DEF DeclInv
    <3>2. CASE b # NoApproval
      <4>1. b \in Approvals /\ Recorded(b) /\ approvals[b].exec = e
        BY <2>1, <3>2 DEF DeclInv, OutInv, IsFine, Taken, EInv, TInv, TypeOK, Coroutine
      <4>. QED
        BY <2>2, <2>3, <4>1 DEF DeclInv, OutInv, EInv, OneApproval
    <3>. QED
      BY <3>1, <3>2
  <2>. QED
    BY <2>1, <2>3, <2>4 DEF DeclInv, OutInv, EInv, TInv, TypeOK, Commands
<1>3. UNCHANGED dispatched \/ \E r \in Approvers : Dispatch(r)
  <2>1. ASSUME NEW r \in Approvers, Proceed(r)
        PROVE  UNCHANGED dispatched \/ Dispatch(r)
    BY <2>1 DEF Proceed, ApproveDecide, ApproveRecord, Resume, Return, ReturnLogged, Answer
  <2>. QED
    BY <2>1 DEF Next, Submit, SubmitRaw, SubmitExecute, SubmitCreate, ApproveBegin, Refresh,
                RejectRecord, RejectDecide, Elsewhere, Toggle, Crash, vars
<1>. QED
  BY <1>1, <1>2, <1>3

(* A granted command that approve answered as not executed is not executed
   under that decision later, by another approve request or after a restart
   that empties the cache, torn registry files included. *)
THEOREM NotExecutedIsFinal ==
  ASSUME DiskMayFail = FALSE
  PROVE  Spec => NotExecutedStaysSo
<1>1. Init => DeclInv
  BY InitOut DEF Init, DeclInv, Idle, NoDecision, Declined
<1>2. DeclInv /\ [Next]_vars => DeclInv'
  <2>1. ASSUME DeclInv, UNCHANGED vars
        PROVE  DeclInv'
    <3>1. OutInv'
      BY <2>1, NextOut DEF DeclInv
    <3>. QED
      BY <2>1, <3>1 DEF DeclInv, vars, storeVars, decisionVars, Settled, Recorded, Declined
  <2>. QED
    BY <2>1, NextDecl
<1>3. DeclInv /\ [Next]_vars =>
        [\A a \in Approvals :
           decisions[a].result = "not_executed" /\ decisions[a].accepted
             => dispatched'[approvals[a].exec] = dispatched[approvals[a].exec]]_vars
  BY DeclinedIsLeft DEF Declined
<1>. QED
  BY <1>1, <1>2, <1>3, PTL DEF Spec, NotExecutedStaysSo
=============================================================================
