------------------------- MODULE TemplateRuns_proofs -------------------------
(***************************************************************************)
(* Proofs about TemplateRuns: a step of a job template has at most one     *)
(* live approval, and its tool starts only on one that was granted.        *)
(*                                                                         *)
(* Neither needs the disk to work.  The file is at every moment some       *)
(* earlier store as a whole, so that what holds of each store a step       *)
(* leaves in memory holds of the file (Sound).  A step that is about to    *)
(* start holds the event loop, so that only threads and the clock, which   *)
(* take no grant, come between the look at the approval and the start.     *)
(***************************************************************************)
EXTENDS TemplateRuns, GovernedEffects_proofs

(* Of a store, with the steps and submissions there are: every record is of an
   execution that was submitted, and a step has one live approval at most. *)
SoundFor(A, known, sub) ==
  /\ \A a \in Approvals : A[a] # Store!NoRecord => sub[A[a].exec] # "new"
  /\ \A a, b \in Approvals :
       /\ A[a].status \in {"pending", "approved"} /\ A[b].status \in {"pending", "approved"}
       /\ A[a].exec = A[b].exec /\ A[a].exec \in known
       => a = b

StepsAreTools == \A e \in steps : e \in Executions /\ submission[e] # "new" /\ Kind[e] = "tool"

StepTInv == TInv /\ StepsAreTools

SoundInv == /\ StepTInv
            /\ SoundFor(approvals, steps, submission) /\ SoundFor(disk, steps, submission)

-----------------------------------------------------------------------------
(* The place of a coroutine. *)
LEMMA PlaceIs ==
  ASSUME TInv, NEW r \in Approvers,
         NEW pc \in {"checked", "decided", "recorded", "cleared", "running", "logging",
                     "finished", "done"},
         NEW result \in {"none"} \cup Terminal,
         \/ approver' = [approver EXCEPT ![r].pc = pc]
         \/ approver' = [approver EXCEPT ![r].pc = pc, ![r].result = result]
  PROVE  /\ approver'[r].pc = pc /\ approver'[r].exec = approver[r].exec
         /\ \A q \in Approvers \ {r} : approver'[q] = approver[q]
  BY DEF TInv, TypeOK, Coroutine

(* What a call does to the registry, if it does anything. *)
CallRegisters(e) ==
  \/ UNCHANGED registryVars
  \/ \E a \in Approvals \cup {NoApproval}, state \in {"NONE", "EXECUTING", "BLOCKED"} :
       Register(e, state, a)

(* A call is for one execution: it reads or creates approvals, and ends or goes
   on to the start of the step. *)
LEMMA StepTyped ==
  ASSUME TInv, NEW r \in Approvers, NEW e \in Executions, OwnsStep(r, e), StoreKeeps,
         CallRegisters(e),
         \/ CallEnds(r)
         \/ approver' = [approver EXCEPT ![r] = [Idle EXCEPT !.pc = "cleared", !.exec = e]]
            /\ loop' = r,
         UNCHANGED <<decisionVars, cacheVars, armed, rejecter, dispatched, restarts>>
  PROVE  TInv'
<1>1. registry' \in Entries /\ registryFile' \in Entries \cup {Torn}
  BY RegisterTyped DEF CallRegisters, registryVars, TInv, TypeOK
<1>2. /\ submission' \in [Executions -> {"new", "created", "done"}]
      /\ \A d \in Executions : submission'[d] = "created" => submission[d] = "created"
  BY DEF OwnsStep, TInv, TypeOK
<1>3. RestKeeps(r)
  BY <1>1, <1>2, RestKept DEF RestKeeps, CallEnds
<1>4. CASE CallEnds(r)
  <2>. DEFINE next == [approver[r] EXCEPT !.pc = "done"]
  <2>1. next \in Coroutine /\ next.pc = "done"
    BY DEF TInv, TypeOK, Coroutine
  <2>2. approver' = [approver EXCEPT ![r] = next]
    BY <1>4 DEF CallEnds, TInv, TypeOK
  <2>. QED
    BY <1>3, <2>1, <2>2, NextTInv
<1>5. CASE approver' = [approver EXCEPT ![r] = [Idle EXCEPT !.pc = "cleared", !.exec = e]]
  <2>. DEFINE next == [Idle EXCEPT !.pc = "cleared", !.exec = e]
  <2>1. next \in Coroutine /\ next.pc = "cleared" /\ next.exec \in Executions
    BY DEF Idle, Coroutine
  <2>. QED
    BY <1>3, <1>5, <2>1, NextTInv
<1>. QED
  BY <1>4, <1>5

(* One call for one step. *)
Call(r, e, p) ==
  \/ StepConflict(r, e, p)
  \/ \E a \in Approvals : StepPrepare(r, e, p, a)
  \/ \E supplied \in issued \cup {NoApproval} :
       \/ StepPending(r, e, p, supplied) \/ StepRun(r, e, p, supplied)
       \/ StepDenied(r, e, p, supplied)

(* What each call does. *)
LEMMA CallIs ==
  ASSUME TInv, NEW r \in Approvers, NEW e \in Executions, NEW p \in Payloads, Call(r, e, p)
  PROVE  /\ OwnsStep(r, e) /\ CallRegisters(e)
         /\ \/ Store!Touch
            \/ \E a \in Approvals : Store!Create(e, p, a) /\ Alive(e) = {}
         /\ \/ CallEnds(r)
            \/ /\ approver' = [approver EXCEPT ![r] = [Idle EXCEPT !.pc = "cleared", !.exec = e]]
               /\ loop' = r /\ Store!Touch
               /\ \E a \in Approvals : Store!FullyApproved(a) /\ Register(e, "EXECUTING", a)
         /\ UNCHANGED <<decisionVars, cacheVars, armed, rejecter, dispatched, restarts>>
<1>1. \A supplied \in issued \cup {NoApproval} :
        /\ GoesBy(e, supplied) \subseteq Approvals
        /\ Asked(e, supplied) \subseteq Approvals \cup {NoApproval}
  BY DEF GoesBy, Asked, Alive, TInv, TypeOK, Store!TypeOK, Entries, Entry
<1>2. CASE StepConflict(r, e, p)
  BY <1>2 DEF StepConflict, CallRegisters
<1>3. CASE \E a \in Approvals : StepPrepare(r, e, p, a)
  BY <1>3 DEF StepPrepare, CallRegisters
<1>4. ASSUME NEW supplied \in issued \cup {NoApproval}, StepPending(r, e, p, supplied)
      PROVE  /\ OwnsStep(r, e) /\ CallRegisters(e) /\ Store!Touch /\ CallEnds(r)
             /\ UNCHANGED <<decisionVars, cacheVars, armed, rejecter, dispatched, restarts>>
  BY <1>1, <1>4 DEF StepPending, CallRegisters
<1>5. ASSUME NEW supplied \in issued \cup {NoApproval}, StepRun(r, e, p, supplied)
      PROVE  /\ OwnsStep(r, e) /\ CallRegisters(e) /\ Store!Touch
             /\ approver' = [approver EXCEPT ![r] = [Idle EXCEPT !.pc = "cleared", !.exec = e]]
             /\ loop' = r
             /\ \E a \in Approvals : Store!FullyApproved(a) /\ Register(e, "EXECUTING", a)
             /\ UNCHANGED <<decisionVars, cacheVars, armed, rejecter, dispatched, restarts>>
  BY <1>1, <1>5 DEF StepRun, CallRegisters
<1>6. ASSUME NEW supplied \in issued \cup {NoApproval}, StepDenied(r, e, p, supplied)
      PROVE  /\ OwnsStep(r, e) /\ CallRegisters(e) /\ Store!Touch /\ CallEnds(r)
             /\ UNCHANGED <<decisionVars, cacheVars, armed, rejecter, dispatched, restarts>>
  BY <1>1, <1>6 DEF StepDenied, CallRegisters
<1>. QED
  BY <1>2, <1>3, <1>4, <1>5, <1>6 DEF Call

(* Calls keep the types, and make steps of tools only. *)
LEMMA CallTInv ==
  ASSUME StepTInv, NEW r \in Approvers, NEW e \in Executions, NEW p \in Payloads, Call(r, e, p)
  PROVE  StepTInv'
<1>1. /\ OwnsStep(r, e) /\ CallRegisters(e)
      /\ \/ Store!Touch
         \/ \E a \in Approvals : Store!Create(e, p, a)
      /\ \/ CallEnds(r)
         \/ /\ approver' = [approver EXCEPT ![r] = [Idle EXCEPT !.pc = "cleared", !.exec = e]]
            /\ loop' = r
      /\ UNCHANGED <<decisionVars, cacheVars, armed, rejecter, dispatched, restarts>>
  BY CallIs DEF StepTInv
<1>2. StoreKeeps
  BY <1>1, TouchKeeps, CreateKeeps DEF StepTInv, TInv, TypeOK
<1>3. TInv'
  BY <1>1, <1>2, StepTyped DEF StepTInv
<1>4. StepsAreTools'
  BY <1>1 DEF OwnsStep, StepsAreTools, StepTInv, TInv, TypeOK
<1>. QED
  BY <1>3, <1>4 DEF StepTInv

(* The other steps of the system make nothing new again. *)
LEMMA NextTools ==
  ASSUME StepTInv, [Next]_vars, UNCHANGED steps
  PROVE  /\ StepTInv'
         /\ \A e \in Executions : submission[e] # "new" => submission'[e] # "new"
<1>1. TInv'
  BY NextTInvKept DEF StepTInv
<1>2. ASSUME NEW r \in Approvers, Proceed(r)
      PROVE  UNCHANGED submission
  BY <1>2 DEF Proceed, ApproveDecide, ApproveRecord, Resume, Dispatch, Return, ReturnLogged, Answer
<1>3. \/ UNCHANGED submission \/ Crash
      \/ \E e \in Executions : submission' \in {[submission EXCEPT ![e] = "created"],
                                                [submission EXCEPT ![e] = "done"]}
  BY <1>2 DEF Next, Submit, SubmitRaw, SubmitExecute, SubmitCreate, ApproveBegin, Refresh,
              RejectRecord, RejectDecide, Elsewhere, Toggle, vars
<1>4. \A e \in Executions : submission[e] # "new" => submission'[e] # "new"
  BY <1>3 DEF Crash, StepTInv, TInv, TypeOK
<1>. QED
  BY <1>1, <1>4 DEF StepTInv, StepsAreTools

-----------------------------------------------------------------------------
(* A store with no more records, and no more of them live, is as sound. *)
LEMMA FewerSound ==
  ASSUME NEW A, NEW B, NEW known, NEW sub, SoundFor(A, known, sub),
         \A a \in Approvals :
           /\ B[a] # Store!NoRecord => A[a] # Store!NoRecord /\ B[a].exec = A[a].exec
           /\ B[a].status \in {"pending", "approved"} => A[a].status \in {"pending", "approved"}
  PROVE  SoundFor(B, known, sub)
<1>1. \A a \in Approvals : B[a].status \in {"pending", "approved"} => B[a] # Store!NoRecord
  BY DEF Store!NoRecord
<1>. QED
  BY <1>1 DEF SoundFor

(* New steps are of executions the store does not know. *)
LEMMA GrownSound ==
  ASSUME NEW A \in Store!Store, NEW known, NEW sub, SoundFor(A, known, sub), NEW more, NEW later,
         \A e \in Executions : sub[e] # "new" => later[e] # "new",
         \A e \in more : e \in known \/ sub[e] = "new"
  PROVE  SoundFor(A, more, later)
<1>1. \A a \in Approvals : A[a].status \in {"pending", "approved"} => A[a] # Store!NoRecord
  BY DEF Store!NoRecord
<1>2. \A a \in Approvals : A[a] # Store!NoRecord => A[a].exec \in Executions
  BY DEF Store!Store, Store!Record
<1>. QED
  BY <1>1, <1>2 DEF SoundFor

(* Expiry leaves a sound store sound. *)
LEMMA ExpiredSound ==
  ASSUME NEW A \in Store!Store, NEW known, NEW sub, SoundFor(A, known, sub)
  PROVE  SoundFor(Store!Expired(A), known, sub)
<1>. DEFINE B == Store!Expired(A)
<1>1. \A a \in Approvals :
        /\ B[a] # Store!NoRecord => A[a] # Store!NoRecord /\ B[a].exec = A[a].exec
        /\ B[a].status \in {"pending", "approved"} => A[a].status \in {"pending", "approved"}
  BY DEF Store!Expired, Store!Store, Store!Record, Store!NoRecord
<1>. HIDE DEF B
<1>. QED
  BY <1>1, FewerSound DEF B

(* A sound store committed to a sound file leaves both sound. *)
LEMMA CommitSound ==
  ASSUME TypeOK, NEW known, NEW sub, SoundFor(approvals, known, sub), SoundFor(disk, known, sub),
         NEW new, SoundFor(new, known, sub), Store!Commit(new)
  PROVE  SoundFor(approvals', known, sub) /\ SoundFor(disk', known, sub)
<1>1. SoundFor(Store!Current, known, sub)
  BY ExpiredSound DEF TypeOK, Store!TypeOK, Store!Current
<1>2. approvals' = new /\ disk' \in {disk, Store!Current, new}
  BY DEF Store!Commit, Store!Written
<1>. QED
  BY <1>1, <1>2

(* The operations that create nothing. *)
LEMMA QuietSound ==
  ASSUME TypeOK, NEW known, NEW sub, SoundFor(approvals, known, sub), SoundFor(disk, known, sub),
         \/ UNCHANGED storeVars \/ Store!Touch \/ Store!Restart
         \/ \E a \in Approvals : Store!Age(a) \/ Store!Reject(a) \/ Store!Approve(a)
  PROVE  SoundFor(approvals', known, sub) /\ SoundFor(disk', known, sub)
<1>1. CASE UNCHANGED storeVars \/ \E a \in Approvals : Store!Age(a)
  BY <1>1 DEF storeVars, Store!Age
<1>2. SoundFor(Store!Current, known, sub)
  BY ExpiredSound DEF TypeOK, Store!TypeOK, Store!Current
<1>3. CASE Store!Touch
  BY <1>2, <1>3, CommitSound DEF Store!Touch
<1>4. ASSUME NEW a \in Approvals, NEW decision \in {"approved", "rejected"},
             Store!Commit(IF Store!Current[a].status = "pending"
                            THEN [Store!Current EXCEPT ![a].status = decision]
                            ELSE Store!Current)
      PROVE  SoundFor(approvals', known, sub) /\ SoundFor(disk', known, sub)
  <2>. DEFINE new == IF Store!Current[a].status = "pending"
                       THEN [Store!Current EXCEPT ![a].status = decision] ELSE Store!Current
  <2>1. \A b \in Approvals :
          /\ new[b] # Store!NoRecord =>
               Store!Current[b] # Store!NoRecord /\ new[b].exec = Store!Current[b].exec
          /\ new[b].status \in {"pending", "approved"}
               => Store!Current[b].status \in {"pending", "approved"}
    BY CurrentKeeps DEF TypeOK, Store!Store, Store!Record, Store!NoRecord
  <2>2. Store!Commit(new)
    BY <1>4
  <2>. HIDE DEF new
  <2>3. SoundFor(new, known, sub)
    BY <1>2, <2>1, FewerSound
  <2>. QED
    BY <2>2, <2>3, CommitSound
<1>5. CASE Store!Restart
  <2>1. SoundFor(Store!Empty, known, sub) /\ Store!Empty \in Store!Store
    BY DEF SoundFor, Store!Empty, Store!NoRecord, Store!Store
  <2>2. PICK loaded \in {disk, Store!Empty} :
          /\ approvals' = Store!Expired(loaded)
          /\ disk' \in {disk, Store!Expired(loaded)}
    BY <1>5 DEF Store!Restart, Store!Written
  <2>3. SoundFor(Store!Expired(loaded), known, sub)
    BY <2>1, ExpiredSound DEF TypeOK, Store!TypeOK
  <2>. QED
    BY <2>2, <2>3
<1>. QED
  BY <1>1, <1>3, <1>4, <1>5 DEF Store!Reject, Store!Approve

(* A new approval, of an execution that was submitted and is no step, or is a
   step with no live approval. *)
LEMMA CreateSound ==
  ASSUME TInv, NEW known, NEW sub, SoundFor(approvals, known, sub), SoundFor(disk, known, sub),
         NEW e \in Executions, NEW p \in Payloads, NEW a \in Approvals, Store!Create(e, p, a),
         sub[e] # "new", e \notin known \/ Alive(e) = {}
  PROVE  SoundFor(approvals', known, sub) /\ SoundFor(disk', known, sub)
<1>1. CASE Store!Touch
  BY <1>1, QuietSound DEF TInv
<1>2. CASE Store!Commit([Store!Current EXCEPT ![a] =
                          [status |-> "pending", exec |-> e, payload |-> p]])
  <2>. DEFINE new == [Store!Current EXCEPT ![a] = [status |-> "pending", exec |-> e, payload |-> p]]
  <2>1. SoundFor(Store!Current, known, sub)
    BY ExpiredSound DEF TInv, TypeOK, Store!TypeOK, Store!Current
  <2>2. /\ new[a].exec = e
        /\ \A b \in Approvals \ {a} : new[b] = Store!Current[b]
    BY CurrentKeeps DEF TInv, TypeOK, Store!Store
  <2>3. Store!Commit(new)
    BY <1>2
  <2>4. e \notin known \/ \A b \in Approvals : ~(/\ Store!Current[b].status \in {"pending", "approved"}
                                                 /\ Store!Current[b].exec = e)
    BY DEF Alive
  <2>. HIDE DEF new
  <2>5. SoundFor(new, known, sub)
    BY <2>1, <2>2, <2>4 DEF SoundFor
  <2>. QED
    BY <2>3, <2>5, CommitSound DEF TInv
<1>. QED
  BY <1>1, <1>2 DEF Store!Create

(* What the other steps of the system do to the store. *)
LEMMA NextStore ==
  ASSUME TInv, [Next]_vars
  PROVE  \/ UNCHANGED storeVars \/ Store!Touch \/ Store!Restart
         \/ \E a \in Approvals : Store!Age(a) \/ Store!Reject(a) \/ Store!Approve(a)
         \/ \E e \in Executions, a \in Approvals : SubmitCreate(e, a)
<1>1. ASSUME NEW r \in Approvers, Proceed(r)
      PROVE  UNCHANGED storeVars \/ Store!Touch \/ \E a \in Approvals : Store!Approve(a)
  <2>1. ApproveDecide(r) => approver[r].approval \in Approvals
    BY DEF ApproveDecide, TInv, CoroutineHas
  <2>. QED
    BY <1>1, <2>1 DEF Proceed, ApproveDecide, ApproveRecord, Resume, Dispatch, Return,
                      ReturnLogged, Answer
<1>. QED
  BY <1>1 DEF Next, Submit, SubmitRaw, SubmitExecute, ApproveBegin, Refresh, RejectRecord,
              RejectDecide, Elsewhere, Toggle, Crash, vars

(* No step of the system, and no call, gives a step a second live approval. *)
LEMMA NextSound ==
  ASSUME SoundInv, [StepNext]_stepVars
  PROVE  SoundInv'
<1>1. /\ TypeOK /\ approvals \in Store!Store /\ disk \in Store!Store
      /\ SoundFor(approvals, steps, submission) /\ SoundFor(disk, steps, submission)
  BY DEF SoundInv, StepTInv, TInv, TypeOK, Store!TypeOK
<1>2. CASE [Next]_vars /\ UNCHANGED steps
  <2>1. /\ StepTInv'
        /\ \A e \in Executions : submission[e] # "new" => submission'[e] # "new"
    BY <1>2, NextTools DEF SoundInv
  <2>2. SoundFor(approvals, steps, submission') /\ SoundFor(disk, steps, submission')
    BY <1>1, <2>1, GrownSound
  <2>3. SoundFor(approvals', steps, submission') /\ SoundFor(disk', steps, submission')
    <3>1. CASE \E e \in Executions, a \in Approvals : SubmitCreate(e, a)
      <4>1. PICK e \in Executions, a \in Approvals : SubmitCreate(e, a)
        BY <3>1
      <4>2. e \notin steps /\ submission'[e] # "new"
        BY <4>1 DEF SubmitCreate, SoundInv, StepTInv, StepsAreTools, TInv, TypeOK
      <4>3. PICK p \in Payloads : Store!Create(e, p, a)
        BY <4>1 DEF SubmitCreate
      <4>. QED
        BY <2>2, <4>2, <4>3, CreateSound DEF SoundInv, StepTInv
    <3>2. CASE \/ UNCHANGED storeVars \/ Store!Touch \/ Store!Restart
               \/ \E a \in Approvals : Store!Age(a) \/ Store!Reject(a) \/ Store!Approve(a)
      BY <1>1, <2>2, <3>2, QuietSound
    <3>. QED
      BY <1>2, <3>1, <3>2, NextStore DEF SoundInv, StepTInv
  <2>. QED
    BY <1>2, <2>1, <2>3 DEF SoundInv
<1>3. ASSUME NEW r \in Approvers, NEW e \in Executions, NEW p \in Payloads, Call(r, e, p)
      PROVE  SoundInv'
  <2>1. StepTInv'
    BY <1>3, CallTInv DEF SoundInv
  <2>2. /\ OwnsStep(r, e)
        /\ Store!Touch \/ \E a \in Approvals : Store!Create(e, p, a) /\ Alive(e) = {}
    BY <1>3, CallIs DEF SoundInv, StepTInv
  <2>3. /\ \A d \in Executions : submission[d] # "new" => submission'[d] # "new"
        /\ submission'[e] # "new"
        /\ \A d \in steps' : d \in steps \/ submission[d] = "new"
    BY <2>2 DEF OwnsStep, SoundInv, StepTInv, TInv, TypeOK
  <2>4. SoundFor(approvals, steps', submission') /\ SoundFor(disk, steps', submission')
    BY <1>1, <2>3, GrownSound
  <2>5. SoundFor(approvals', steps', submission') /\ SoundFor(disk', steps', submission')
    BY <1>1, <2>2, <2>3, <2>4, QuietSound, CreateSound DEF SoundInv, StepTInv
  <2>. QED
    BY <2>1, <2>5 DEF SoundInv
<1>. QED
  BY <1>2, <1>3 DEF StepNext, stepVars, Call

(* A job step never has two live approvals, not even for different inputs,
   whichever of the reads and writes fail and wherever the process stops. *)
THEOREM OneApprovalPerStep == StepSpec => []OneLivePerStep
<1>1. StepInit => SoundInv
  <2>. SUFFICES ASSUME StepInit
                PROVE  SoundInv
    OBVIOUS
  <2>1. TInv
    BY InitTInv DEF StepInit
  <2>2. SoundFor(approvals, steps, submission) /\ SoundFor(disk, steps, submission)
    BY DEF StepInit, Init, Store!Init, Store!Empty, Store!NoRecord, SoundFor
  <2>. QED
    BY <2>1, <2>2 DEF SoundInv, StepTInv, StepsAreTools, StepInit
<1>2. SoundInv /\ [StepNext]_stepVars => SoundInv'
  BY NextSound
<1>3. SoundInv => OneLivePerStep
  BY DEF SoundInv, SoundFor, OneLivePerStep, Store!Live
<1>. QED
  BY <1>1, <1>2, <1>3, PTL DEF StepSpec

-----------------------------------------------------------------------------
(* What is being executed is registered. *)
HeldEntries ==
  \A r \in Approvers :
    approver[r].pc \in {"cleared", "running", "logging"} => registry[approver[r].exec] # NoEntry

(* The registry names a granted approval for the execution e. *)
IsGranted(e) == /\ registry[e].approval \in Approvals
                /\ approvals[registry[e].approval].status = "approved"

StepsAreGranted ==
  \A r \in Approvers :
    approver[r].pc = "cleared" /\ approver[r].exec \in steps => IsGranted(approver[r].exec)

GrantInv == StepTInv /\ LoopIsHeld /\ HeldEntries /\ StepsAreGranted

-----------------------------------------------------------------------------
(* What the operations of the registry keep. *)
RegistryGrows == \A e \in Executions : registry[e] # NoEntry => registry'[e] # NoEntry

(* The registry is left alone. *)
LEMMA RegistryLeft ==
  ASSUME UNCHANGED registryVars
  PROVE  RegistryGrows
  BY DEF RegistryGrows, registryVars

(* An entry is written. *)
LEMMA PutGrows ==
  ASSUME GrantInv, NEW e \in Executions, NEW entry \in Entry, Put(e, entry)
  PROVE  RegistryGrows /\ registry'[e] = entry /\ registry'[e] # NoEntry
<1>1. registry' = [registry EXCEPT ![e] = entry] /\ entry # NoEntry
  BY DEF Put, Entry, NoEntry
<1>2. registry'[e] = entry /\ \A d \in Executions \ {e} : registry'[d] = registry[d]
  BY <1>1 DEF GrantInv, StepTInv, TInv, TypeOK, Entries
<1>. QED
  BY <1>1, <1>2 DEF RegistryGrows

(* Registering names the approval given, or the one there was. *)
LEMMA RegisterGrows ==
  ASSUME GrantInv, NEW e \in Executions, NEW state \in {"NONE", "EXECUTING", "BLOCKED"},
         NEW a \in Approvals \cup {NoApproval}, Register(e, state, a)
  PROVE  /\ RegistryGrows /\ registry'[e] # NoEntry
         /\ a # NoApproval => registry'[e].approval = a
         /\ a = NoApproval /\ registry[e] # NoEntry => registry'[e].approval = registry[e].approval
<1>. DEFINE old == registry[e]
            s == IF state = "NONE" /\ old # NoEntry THEN old.state ELSE state
            b == IF a = NoApproval /\ old # NoEntry THEN old.approval ELSE a
            entry == [state |-> s, approval |-> b]
<1>1. entry \in Entry /\ entry.approval = b
  BY DEF GrantInv, StepTInv, TInv, TypeOK, Entries, Entry, Terminal, NoEntry
<1>2. Put(e, entry)
  BY DEF Register
<1>3. /\ a # NoApproval => b = a
      /\ a = NoApproval /\ registry[e] # NoEntry => b = registry[e].approval
  OBVIOUS
<1>. HIDE DEF entry, b
<1>. QED
  BY <1>1, <1>2, <1>3, PutGrows

(* Blocking or ending an execution. *)
LEMMA SetStateGrows ==
  ASSUME GrantInv, NEW e \in Executions, NEW state \in Terminal, SetState(e, state)
  PROVE  RegistryGrows /\ registry'[e] # NoEntry
<1>. DEFINE entry == [state    |-> state,
                      approval |-> IF registry[e] = NoEntry THEN NoApproval
                                     ELSE registry[e].approval]
<1>1. entry \in Entry
  BY DEF GrantInv, StepTInv, TInv, TypeOK, Entries, Entry
<1>2. Put(e, entry)
  BY DEF SetState
<1>. HIDE DEF entry
<1>. QED
  BY <1>1, <1>2, PutGrows

(* Only a restart takes a grant, and that ends every coroutine. *)
LEMMA GrantsStay ==
  ASSUME TInv,
         \/ UNCHANGED storeVars \/ Store!Touch
         \/ \E a \in Approvals : Store!Age(a) \/ Store!Reject(a) \/ Store!Approve(a)
  PROVE  \A a \in Approvals : approvals[a].status = "approved" => approvals'[a].status = "approved"
<1>1. \A a \in Approvals : approvals[a].status = "approved" => Store!Current[a].status = "approved"
  BY DEF Store!Current, Store!Expired, TInv, TypeOK, Store!TypeOK, Store!Store
<1>2. ASSUME NEW a \in Approvals, NEW decision \in {"approved", "rejected"},
             approvals' = IF Store!Current[a].status = "pending"
                            THEN [Store!Current EXCEPT ![a].status = decision] ELSE Store!Current
      PROVE  \A b \in Approvals : approvals[b].status = "approved" => approvals'[b].status = "approved"
  BY <1>1, <1>2, CurrentKeeps DEF TInv, TypeOK, Store!Store
<1>3. CASE UNCHANGED storeVars \/ \E a \in Approvals : Store!Age(a)
  BY <1>3 DEF storeVars, Store!Age
<1>. QED
  BY <1>1, <1>2, <1>3 DEF Store!Touch, Store!Reject, Store!Approve, Store!Commit

-----------------------------------------------------------------------------
(* Who holds the loop is alone in what needs it. *)
LEMMA HolderAlone ==
  ASSUME GrantInv, NEW r \in Approvers, loop \in {Free, r}
  PROVE  /\ \A q \in Approvers \ {r} : approver[q].pc \notin Holding
         /\ \A e \in Executions : submission[e] # "created"
  BY GovernedAssumption DEF GrantInv, LoopIsHeld

(* A step of r's coroutine. *)
LEMMA CoroutineGrants ==
  ASSUME GrantInv, StepTInv', RegistryGrows, NEW r \in Approvers, loop \in {Free, r},
         \A q \in Approvers \ {r} : approver'[q] = approver[q],
         \A e \in Executions : submission'[e] = "created" => submission[e] = "created",
         approver'[r].pc \in Holding => loop' = r,
         approver'[r].pc \in {"cleared", "running", "logging"} =>
           registry'[approver'[r].exec] # NoEntry,
         approver'[r].pc = "cleared" /\ approver'[r].exec \in steps' =>
           /\ registry'[approver'[r].exec].approval \in Approvals
           /\ approvals'[registry'[approver'[r].exec].approval].status = "approved"
  PROVE  GrantInv'
<1>1. /\ \A q \in Approvers \ {r} : approver'[q] = approver[q] /\ approver[q].pc \notin Holding
      /\ \A e \in Executions : submission'[e] # "created"
  BY HolderAlone
<1>2. LoopIsHeld'
  BY <1>1 DEF LoopIsHeld
<1>3. HeldEntries'
  <2>. SUFFICES ASSUME NEW q \in Approvers, approver'[q].pc \in {"cleared", "running", "logging"}
                PROVE  registry'[approver'[q].exec] # NoEntry
    BY DEF HeldEntries
  <2>1. q # r => approver[q].exec \in Executions
    BY <1>1 DEF GrantInv, StepTInv, TInv, CoroutineHas
  <2>. QED
    BY <1>1, <2>1 DEF RegistryGrows, GrantInv, HeldEntries
<1>4. StepsAreGranted'
  BY <1>1 DEF StepsAreGranted, IsGranted, Holding
<1>. QED
  BY <1>2, <1>3, <1>4 DEF GrantInv

(* A step of a thread, the clock or the gate. *)
LEMMA ThreadGrants ==
  ASSUME GrantInv, StepTInv', UNCHANGED <<registryVars, approver, loop, submission, steps>>,
         \A a \in Approvals : approvals[a].status = "approved" => approvals'[a].status = "approved"
  PROVE  GrantInv'
<1>1. LoopIsHeld' /\ HeldEntries' /\ StepsAreGranted'
  BY DEF GrantInv, LoopIsHeld, HeldEntries, StepsAreGranted, IsGranted, registryVars
<1>. QED
  BY <1>1 DEF GrantInv

-----------------------------------------------------------------------------
(* The approve request, from its first look to its decision record. *)
LEMMA ApproveGrants ==
  ASSUME GrantInv, StepTInv', UNCHANGED steps, NEW r \in Approvers,
         \/ \E a \in Approvals : ApproveBegin(r, a)
         \/ ApproveDecide(r) \/ ApproveRecord(r)
  PROVE  GrantInv'
<1>1. UNCHANGED registryVars /\ UNCHANGED submission /\ RegistryGrows
  BY RegistryLeft DEF ApproveBegin, ApproveDecide, ApproveRecord
<1>2. CASE \E a \in Approvals : ApproveBegin(r, a)
  <2>1. PICK a \in Approvals : ApproveBegin(r, a)
    BY <1>2
  <2>2. /\ loop = Free /\ approver'[r].pc \in {"checked", "done"}
        /\ approver'[r].pc = "checked" => loop' = r
        /\ \A q \in Approvers \ {r} : approver'[q] = approver[q]
    BY <2>1 DEF ApproveBegin, Idle, GrantInv, StepTInv, TInv, TypeOK
  <2>. QED
    BY <1>1, <2>2, CoroutineGrants DEF Holding
<1>3. CASE ApproveDecide(r)
  <2>1. loop = r
    BY <1>3 DEF ApproveDecide, GrantInv, LoopIsHeld, Holding
  <2>2. /\ approver'[r].pc \in {"decided", "done"}
        /\ approver'[r].pc = "decided" => loop' = r
        /\ \A q \in Approvers \ {r} : approver'[q] = approver[q]
    BY <1>3 DEF ApproveDecide, GrantInv, StepTInv, TInv, TypeOK, Coroutine
  <2>. QED
    BY <1>1, <2>1, <2>2, CoroutineGrants DEF Holding
<1>4. CASE ApproveRecord(r)
  <2>1. loop = r /\ loop' = r
    BY <1>4 DEF ApproveRecord, GrantInv, LoopIsHeld, Holding
  <2>2. approver'[r].pc = "recorded" /\ \A q \in Approvers \ {r} : approver'[q] = approver[q]
    BY <1>4, PlaceIs DEF ApproveRecord, GrantInv, StepTInv, Terminal
  <2>. QED
    BY <1>1, <2>1, <2>2, CoroutineGrants
<1>. QED
  BY <1>2, <1>3, <1>4

(* Resuming: what is cleared is registered under the approval that was found
   granted. *)
LEMMA ResumeGrants ==
  ASSUME GrantInv, StepTInv', UNCHANGED steps, NEW r \in Approvers, Resume(r)
  PROVE  GrantInv'
<1>. DEFINE e == approver[r].exec
<1>1. loop = r /\ e \in Executions /\ UNCHANGED submission
  BY DEF Resume, GrantInv, LoopIsHeld, Holding, StepTInv, TInv, CoroutineHas
<1>2. CASE UNCHANGED registryVars /\ approver' = [approver EXCEPT ![r].pc = "done"]
  <2>1. approver'[r].pc = "done" /\ \A q \in Approvers \ {r} : approver'[q] = approver[q]
    BY <1>2, PlaceIs DEF GrantInv, StepTInv
  <2>. QED
    BY <1>1, <1>2, <2>1, RegistryLeft, CoroutineGrants DEF Holding
<1>3. CASE /\ UNCHANGED registryVars /\ UNCHANGED loop
           /\ approver' = [approver EXCEPT ![r].pc = "finished", ![r].result = "BLOCKED"]
  <2>1. approver'[r].pc = "finished" /\ \A q \in Approvers \ {r} : approver'[q] = approver[q]
    BY <1>3, PlaceIs DEF GrantInv, StepTInv, Terminal
  <2>. QED
    BY <1>1, <1>3, <2>1, RegistryLeft, CoroutineGrants
<1>4. CASE /\ registry[e] # NoEntry /\ MayResume(e)
           /\ Store!Touch /\ Register(e, "EXECUTING", NoApproval)
           /\ approver' = [approver EXCEPT ![r].pc = "cleared"] /\ UNCHANGED loop
  <2>1. /\ approver'[r].pc = "cleared" /\ approver'[r].exec = e
        /\ \A q \in Approvers \ {r} : approver'[q] = approver[q]
    BY <1>4, PlaceIs DEF GrantInv, StepTInv
  <2>2. RegistryGrows /\ registry'[e] # NoEntry /\ registry'[e].approval = registry[e].approval
    BY <1>1, <1>4, RegisterGrows
  <2>3. e \in steps => /\ registry'[e].approval \in Approvals
                       /\ approvals'[registry'[e].approval].status = "approved"
    BY <1>4, <2>2 DEF MayResume, Store!FullyApproved, Store!Touch, Store!Commit
  <2>. QED
    BY <1>1, <1>4, <2>1, <2>2, <2>3, CoroutineGrants
<1>. QED
  BY <1>2, <1>3, <1>4 DEF Resume

(* A refresh is no step. *)
LEMMA RefreshGrants ==
  ASSUME GrantInv, StepTInv', UNCHANGED steps, NEW r \in Approvers, NEW e \in Executions,
         Refresh(r, e)
  PROVE  GrantInv'
<1>1. /\ loop = Free /\ loop' = r /\ e \notin steps
      /\ Register(e, "EXECUTING", NoApproval)
      /\ \A d \in Executions : submission'[d] = "created" => submission[d] = "created"
  BY DEF Refresh, GrantInv, StepTInv, StepsAreTools, TInv, TypeOK
<1>2. RegistryGrows /\ registry'[e] # NoEntry
  BY <1>1, RegisterGrows
<1>3. /\ approver'[r].pc = "cleared" /\ approver'[r].exec = e
      /\ \A q \in Approvers \ {r} : approver'[q] = approver[q]
  BY DEF Refresh, Idle, GrantInv, StepTInv, TInv, TypeOK
<1>. QED
  BY <1>1, <1>2, <1>3, CoroutineGrants

(* The start, the end and the answer of an execution. *)
LEMMA CarryGrants ==
  ASSUME GrantInv, StepTInv', UNCHANGED steps, NEW r \in Approvers,
         \/ Dispatch(r) \/ ReturnLogged(r) \/ Answer(r)
         \/ \E outcome \in Terminal : Return(r, outcome)
  PROVE  GrantInv'
<1>. DEFINE e == approver[r].exec
<1>1. /\ e \in Executions /\ UNCHANGED submission /\ loop \in {Free, r}
      /\ registry[e] # NoEntry \/ Answer(r)
  BY DEF Dispatch, Return, ReturnLogged, Answer, GrantInv, LoopIsHeld, Holding, HeldEntries,
         StepTInv, TInv, CoroutineHas
<1>2. CASE /\ registry[e] # NoEntry /\ \E state \in Terminal : SetState(e, state)
           /\ \E result \in Terminal :
                approver' = [approver EXCEPT ![r].pc = "finished", ![r].result = result]
           /\ loop' = r
  <2>1. approver'[r].pc = "finished" /\ \A q \in Approvers \ {r} : approver'[q] = approver[q]
    BY <1>2, PlaceIs DEF GrantInv, StepTInv
  <2>2. RegistryGrows
    BY <1>1, <1>2, SetStateGrows
  <2>. QED
    BY <1>1, <1>2, <2>1, <2>2, CoroutineGrants
<1>3. CASE /\ registry[e] # NoEntry /\ UNCHANGED registryVars
           /\ \E pc \in {"running", "logging"} : approver' = [approver EXCEPT ![r].pc = pc]
  <2>1. /\ approver'[r].pc \in {"running", "logging"} /\ approver'[r].exec = e
        /\ \A q \in Approvers \ {r} : approver'[q] = approver[q]
    BY <1>3, PlaceIs DEF GrantInv, StepTInv
  <2>. QED
    BY <1>1, <1>3, <2>1, RegistryLeft, CoroutineGrants DEF Holding, registryVars
<1>4. CASE UNCHANGED registryVars /\ approver' = [approver EXCEPT ![r].pc = "done"]
  <2>1. approver'[r].pc = "done" /\ \A q \in Approvers \ {r} : approver'[q] = approver[q]
    BY <1>4, PlaceIs DEF GrantInv, StepTInv
  <2>. QED
    BY <1>1, <1>4, <2>1, RegistryLeft, CoroutineGrants DEF Holding
<1>5. CASE Dispatch(r)
  <2>1. loop = r
    BY <1>5 DEF Dispatch, GrantInv, LoopIsHeld, Holding
  <2>. QED
    BY <1>1, <1>2, <1>3, <1>5, <2>1 DEF Dispatch, Terminal, Answer
<1>6. CASE ReturnLogged(r)
  BY <1>1, <1>2, <1>6 DEF ReturnLogged, Terminal, Answer
<1>7. CASE Answer(r)
  BY <1>4, <1>7 DEF Answer
<1>8. ASSUME NEW outcome \in Terminal, Return(r, outcome)
      PROVE  GrantInv'
  <2>1. registry[e] # NoEntry
    BY <1>8 DEF Return, GrantInv, HeldEntries
  <2>. QED
    BY <1>2, <1>3, <1>8, <2>1 DEF Return
<1>. QED
  BY <1>5, <1>6, <1>7, <1>8

(* Submissions. *)
LEMMA SubmitGrants ==
  ASSUME GrantInv, StepTInv', UNCHANGED steps, NEW e \in Executions,
         Submit(e) \/ \E a \in Approvals : SubmitCreate(e, a)
  PROVE  GrantInv'
<1>1. UNCHANGED approver /\ \A q \in Approvers : approver[q].pc \notin Holding
  BY GovernedAssumption
     DEF Submit, SubmitRaw, SubmitExecute, SubmitCreate, GrantInv, LoopIsHeld
<1>2. \A d \in Executions \ {e} : submission'[d] # "created"
  BY GovernedAssumption
     DEF Submit, SubmitRaw, SubmitExecute, SubmitCreate, GrantInv, LoopIsHeld, StepTInv, TInv, TypeOK
<1>3. submission'[e] = "created" => loop' = e
  BY DEF Submit, SubmitRaw, SubmitExecute, SubmitCreate, StepTInv, GrantInv, TInv, TypeOK
<1>4. RegistryGrows
  <2>1. CASE \E a \in Approvals : SubmitCreate(e, a)
    BY <2>1, RegistryLeft DEF SubmitCreate
  <2>2. CASE Submit(e)
    <3>1. Created(e) \in Approvals
      BY <2>2, CreatedIsOurs DEF Submit, SubmitRaw, SubmitExecute, GrantInv, StepTInv, TInv
    <3>. QED
      BY <2>2, <3>1, RegisterGrows, GovernedAssumption DEF Submit, SubmitRaw, SubmitExecute
  <2>. QED
    BY <2>1, <2>2
<1>5. LoopIsHeld'
  BY <1>1, <1>2, <1>3 DEF LoopIsHeld
<1>6. HeldEntries'
  BY <1>1, <1>4 DEF GrantInv, HeldEntries, RegistryGrows, StepTInv, TInv, CoroutineHas
<1>7. StepsAreGranted'
  BY <1>1 DEF StepsAreGranted, Holding
<1>. QED
  BY <1>5, <1>6, <1>7 DEF GrantInv

(* The threads, the clock and the gate. *)
LEMMA AsideGrants ==
  ASSUME GrantInv, StepTInv', UNCHANGED steps,
         \/ \E t \in Rejecters : RejectRecord(t) \/ \E a \in Approvals : RejectDecide(t, a)
         \/ Elsewhere \/ Toggle \/ UNCHANGED vars
  PROVE  GrantInv'
<1>1. /\ UNCHANGED <<registryVars, approver, loop, submission, steps>>
      /\ \/ UNCHANGED storeVars \/ Store!Touch
         \/ \E a \in Approvals : Store!Age(a) \/ Store!Reject(a) \/ Store!Approve(a)
  BY DEF RejectRecord, RejectDecide, Elsewhere, Toggle, vars
<1>2. \A a \in Approvals : approvals[a].status = "approved" => approvals'[a].status = "approved"
  BY <1>1, GrantsStay DEF GrantInv, StepTInv
<1>. QED
  BY <1>1, <1>2, ThreadGrants

(* A restart ends every coroutine. *)
LEMMA CrashGrants ==
  ASSUME GrantInv, StepTInv', UNCHANGED steps, Crash
  PROVE  GrantInv'
<1>1. /\ \A r \in Approvers : approver'[r].pc = "idle"
      /\ \A e \in Executions : submission'[e] # "created"
  BY DEF Crash, Idle
<1>2. LoopIsHeld' /\ HeldEntries' /\ StepsAreGranted'
  BY <1>1 DEF LoopIsHeld, HeldEntries, StepsAreGranted, Holding
<1>. QED
  BY <1>2 DEF GrantInv

(* A call: a step that is cleared is registered under the approval found
   granted. *)
LEMMA CallGrants ==
  ASSUME GrantInv, StepTInv', NEW r \in Approvers, NEW e \in Executions, NEW p \in Payloads,
         Call(r, e, p)
  PROVE  GrantInv'
<1>1. /\ OwnsStep(r, e) /\ CallRegisters(e)
      /\ \/ CallEnds(r)
         \/ /\ approver' = [approver EXCEPT ![r] = [Idle EXCEPT !.pc = "cleared", !.exec = e]]
            /\ loop' = r /\ Store!Touch
            /\ \E a \in Approvals : Store!FullyApproved(a) /\ Register(e, "EXECUTING", a)
  BY CallIs DEF GrantInv, StepTInv
<1>2. /\ loop = Free
      /\ \A d \in Executions : submission'[d] = "created" => submission[d] = "created"
  BY <1>1 DEF OwnsStep, GrantInv, StepTInv, TInv, TypeOK
<1>3. RegistryGrows
  BY <1>1, RegistryLeft, RegisterGrows, GovernedAssumption DEF CallRegisters
<1>4. CASE CallEnds(r)
  <2>1. approver'[r].pc = "done" /\ \A q \in Approvers \ {r} : approver'[q] = approver[q]
    BY <1>4, PlaceIs DEF CallEnds, GrantInv, StepTInv
  <2>. QED
    BY <1>2, <1>3, <2>1, CoroutineGrants DEF Holding
<1>5. CASE /\ approver' = [approver EXCEPT ![r] = [Idle EXCEPT !.pc = "cleared", !.exec = e]]
           /\ loop' = r /\ Store!Touch
           /\ \E a \in Approvals : Store!FullyApproved(a) /\ Register(e, "EXECUTING", a)
  <2>1. PICK a \in Approvals : Store!FullyApproved(a) /\ Register(e, "EXECUTING", a)
    BY <1>5
  <2>2. registry'[e] # NoEntry /\ registry'[e].approval = a
    BY <2>1, RegisterGrows, GovernedAssumption
  <2>3. approvals'[a].status = "approved"
    BY <1>5, <2>1 DEF Store!Touch, Store!Commit, Store!FullyApproved
  <2>4. /\ approver'[r].pc = "cleared" /\ approver'[r].exec = e
        /\ \A q \in Approvers \ {r} : approver'[q] = approver[q]
    BY <1>5 DEF Idle, GrantInv, StepTInv, TInv, TypeOK
  <2>. QED
    BY <1>2, <1>3, <1>5, <2>2, <2>3, <2>4, CoroutineGrants
<1>. QED
  BY <1>1, <1>4, <1>5

(* Every step. *)
LEMMA NextGrants ==
  ASSUME GrantInv, [StepNext]_stepVars
  PROVE  GrantInv'
<1>1. CASE [Next]_vars /\ UNCHANGED steps
  <2>1. StepTInv'
    BY <1>1, NextTools DEF GrantInv
  <2>2. ASSUME NEW r \in Approvers, Proceed(r)
        PROVE  GrantInv'
    BY <1>1, <2>1, <2>2, ApproveGrants, ResumeGrants, CarryGrants DEF Proceed
  <2>3. ASSUME NEW r \in Approvers,
               \/ \E a \in Approvals : ApproveBegin(r, a)
               \/ \E e \in Executions : Refresh(r, e)
        PROVE  GrantInv'
    BY <1>1, <2>1, <2>3, ApproveGrants, RefreshGrants
  <2>. QED
    BY <1>1, <2>1, <2>2, <2>3, SubmitGrants, AsideGrants, CrashGrants DEF Next
<1>2. ASSUME NEW r \in Approvers, NEW e \in Executions, NEW p \in Payloads, Call(r, e, p)
      PROVE  GrantInv'
  BY <1>2, CallTInv, CallGrants DEF GrantInv
<1>. QED
  BY <1>1, <1>2 DEF StepNext, stepVars, Call

(* Who starts a step has just found it cleared. *)
LEMMA StartIsCleared ==
  ASSUME GrantInv, [StepNext]_stepVars, NEW r \in Approvers,
         approver[r].pc = "cleared", approver[r].exec \in steps
  PROVE  IsGranted(approver[r].exec)
  BY DEF GrantInv, StepsAreGranted

(* A step's tool starts only on an approval that was granted, whether a call or
   an approve request starts it and whichever approval is named for it, also
   with a torn registry file or a store that forgets what it could not write. *)
THEOREM StepNeedsGrant == StepSpec => StepsRunOnGrants
<1>1. StepInit => GrantInv
  <2>. SUFFICES ASSUME StepInit
                PROVE  GrantInv
    OBVIOUS
  <2>1. TInv /\ steps = {}
    BY InitTInv DEF StepInit
  <2>2. /\ \A r \in Approvers : approver[r].pc = "idle"
        /\ \A e \in Executions : submission[e] = "new" /\ registry[e] = NoEntry
        /\ registryFile = registry
    BY DEF StepInit, Init, Idle
  <2>. QED
    BY <2>1, <2>2 DEF GrantInv, StepTInv, StepsAreTools, LoopIsHeld, HeldEntries,
                      StepsAreGranted, Holding
<1>2. GrantInv /\ [StepNext]_stepVars => GrantInv'
  BY NextGrants
<1>3. GrantInv /\ [StepNext]_stepVars =>
        [\A r \in Approvers :
           approver[r].pc = "cleared" /\ approver'[r].pc = "running" /\ approver[r].exec \in steps
           => LET a == registry[approver[r].exec].approval
              IN  a \in Approvals /\ approvals[a].status = "approved"]_stepVars
  BY StartIsCleared DEF IsGranted
<1>. QED
  BY <1>1, <1>2, <1>3, PTL DEF StepSpec, StepsRunOnGrants
=============================================================================
