----------------------- MODULE GovernedEffects_proofs -----------------------
(***************************************************************************)
(* While the disk works, the governed write path implements                *)
(* GovernedEffects: grant before effect, at most one effect per command,   *)
(* for any number of commands, requests and restarts, torn registry files  *)
(* included.                                                               *)
(*                                                                         *)
(* The argument.  A command has one approval (OneApproval), the one its    *)
(* registry entry names (EntriesAreBound), in memory and in the file.  An  *)
(* approve request that found it pending holds the event loop from there   *)
(* to the start of the executor (LoopIsHeld), so nobody else can start it  *)
(* in between; and nobody has before, since an executor is started only    *)
(* for a granted command (EffectsAreGranted) and this one was not granted  *)
(* (CoroutineIsFirst).  Threads can only take the grant away from it.      *)
(***************************************************************************)
EXTENDS GovernedExecution_proofs

OneApproval ==
  \A a \in Approvals : Recorded(a) =>
    /\ approvals[a].exec \in Commands /\ submission[approvals[a].exec] # "new"
    /\ \A b \in Approvals : Recorded(b) /\ approvals[b].exec = approvals[a].exec => b = a

EntriesAreBound(entries) ==
  \A e \in Commands : entries[e] # NoEntry => entries[e].approval \in Bound(e)

RegistryIsBound ==
  EntriesAreBound(registry) /\ (registryFile # Torn => EntriesAreBound(registryFile))

Holding == {"checked", "decided", "recorded", "cleared", "finished"}

LoopIsHeld ==
  /\ \A r \in Approvers : approver[r].pc \in Holding => loop = r
  /\ \A e \in Executions : submission[e] = "created" => loop = e

CoroutineIsFirst ==
  \A r \in Approvers :
    /\ approver[r].pc \in {"checked", "decided", "recorded"} =>
         dispatched[approvals[approver[r].approval].exec] = 0
    /\ approver[r].pc \in {"decided", "recorded"} =>
         approver[r].exec = approvals[approver[r].approval].exec
    /\ approver[r].pc = "cleared" /\ approver[r].exec \in Commands =>
         dispatched[approver[r].exec] = 0 /\ Granted(approver[r].exec)
    /\ approver[r].pc \in {"cleared", "running", "logging"} =>
         registry[approver[r].exec] # NoEntry

EffectsAreGranted ==
  \A e \in Commands : dispatched[e] = 0 \/ (dispatched[e] = 1 /\ Granted(e))

EInv == /\ TInv /\ disk = approvals
        /\ OneApproval /\ RegistryIsBound /\ LoopIsHeld /\ CoroutineIsFirst /\ EffectsAreGranted

-----------------------------------------------------------------------------
(* The operations of the store keep its records and grants, with a file that
   follows memory; all but approve grant nothing. *)
StoreMoves ==
  /\ disk' = approvals'
  /\ \A a \in Approvals :
       /\ Recorded(a)' <=> Recorded(a)
       /\ Recorded(a) => approvals'[a].exec = approvals[a].exec
       /\ approvals[a].status = "approved" => approvals'[a].status = "approved"

StoreStays ==
  /\ StoreMoves
  /\ \A a \in Approvals : approvals'[a].status = "approved" => approvals[a].status = "approved"

(* Expiry grants nothing and takes no grant. *)
LEMMA CurrentStays ==
  ASSUME Store!TypeOK
  PROVE  \A a \in Approvals :
           /\ Store!Current[a].status = "approved" <=> approvals[a].status = "approved"
           /\ Store!Current[a].status = "pending" => approvals[a].status = "pending"
  BY DEF Store!TypeOK, Store!Current, Store!Expired, Store!Store, Store!Record, Store!NoRecord

(* With a working disk a commit leaves memory and file alike. *)
LEMMA CommitInStep ==
  ASSUME DiskMayFail = FALSE, disk = approvals, NEW new, Store!Commit(new)
  PROVE  approvals' = new /\ disk' = new
  BY DEF Store!Commit, Store!Written

(* Reading the store. *)
LEMMA TouchStays ==
  ASSUME DiskMayFail = FALSE, TInv, disk = approvals, Store!Touch
  PROVE  StoreStays
<1>1. approvals' = Store!Current /\ disk' = Store!Current
  BY CommitInStep DEF Store!Touch
<1>. QED
  BY <1>1, CurrentKeeps, CurrentStays DEF TInv, TypeOK, StoreStays, StoreMoves, Recorded

(* Leaving the store alone. *)
LEMMA IdleStays ==
  ASSUME disk = approvals, UNCHANGED storeVars
  PROVE  StoreStays
  BY DEF storeVars, StoreStays, StoreMoves, Recorded

(* The clock. *)
LEMMA AgeStays ==
  ASSUME disk = approvals, NEW a \in Approvals, Store!Age(a)
  PROVE  StoreStays
  BY DEF Store!Age, StoreStays, StoreMoves, Recorded

(* A rejection takes no grant, since it finds the approval decided. *)
LEMMA RejectStays ==
  ASSUME DiskMayFail = FALSE, TInv, disk = approvals, NEW a \in Approvals, Store!Reject(a)
  PROVE  StoreStays
<1>. DEFINE new == IF Store!Current[a].status = "pending"
                     THEN [Store!Current EXCEPT ![a].status = "rejected"] ELSE Store!Current
<1>1. approvals' = new /\ disk' = new
  BY CommitInStep DEF Store!Reject
<1>2. \A b \in Approvals : /\ new[b] # Store!NoRecord <=> Store!Current[b] # Store!NoRecord
                           /\ Recorded(b) => new[b].exec = Store!Current[b].exec
                           /\ new[b].status = "approved" <=> Store!Current[b].status = "approved"
  BY CurrentKeeps DEF TInv, TypeOK, Store!Store, Store!Record, Store!NoRecord, Recorded
<1>. HIDE DEF new
<1>. QED
  BY <1>1, <1>2, CurrentKeeps, CurrentStays
     DEF TInv, TypeOK, StoreStays, StoreMoves, Recorded

(* approve grants a pending approval, or nothing. *)
LEMMA ApproveMoves ==
  ASSUME DiskMayFail = FALSE, TInv, disk = approvals, NEW a \in Approvals, Store!Approve(a)
  PROVE  /\ StoreMoves
         /\ Store!Current[a].status # "pending" => StoreStays
         /\ \A b \in Approvals \ {a} : approvals'[b].status = "approved"
                                        => approvals[b].status = "approved"
         /\ Store!Current[a].status = "pending" => Recorded(a) /\ approvals'[a].status = "approved"
<1>. DEFINE new == IF Store!Current[a].status = "pending"
                     THEN [Store!Current EXCEPT ![a].status = "approved"] ELSE Store!Current
<1>1. approvals' = new /\ disk' = new
  BY CommitInStep DEF Store!Approve
<1>2. \A b \in Approvals :
        /\ new[b] # Store!NoRecord <=> Store!Current[b] # Store!NoRecord
        /\ Recorded(b) => new[b].exec = Store!Current[b].exec
        /\ Store!Current[b].status = "approved" => new[b].status = "approved"
        /\ b # a \/ Store!Current[a].status # "pending" => new[b] = Store!Current[b]
  BY CurrentKeeps DEF TInv, TypeOK, Store!Store, Store!Record, Store!NoRecord, Recorded
<1>3. Store!Current[a].status = "pending" => Recorded(a) /\ new[a].status = "approved"
  BY CurrentKeeps DEF TInv, TypeOK, Store!Store, Store!Record, Store!NoRecord, Recorded
<1>. HIDE DEF new
<1>. QED
  BY <1>1, <1>2, <1>3, CurrentKeeps, CurrentStays
     DEF TInv, TypeOK, StoreStays, StoreMoves, Recorded

(* A restart reads what memory held. *)
LEMMA RestartStays ==
  ASSUME DiskMayFail = FALSE, TInv, disk = approvals, Store!Restart
  PROVE  StoreStays
<1>1. approvals' = Store!Current /\ disk' = Store!Current
  BY DEF Store!Restart, Store!Written, Store!Current
<1>. QED
  BY <1>1, CurrentKeeps, CurrentStays DEF TInv, TypeOK, StoreStays, StoreMoves, Recorded

(* create adds a pending approval of e, if e had none. *)
LEMMA CreateMoves ==
  ASSUME DiskMayFail = FALSE, TInv, disk = approvals,
         NEW e \in Executions, NEW p \in Payloads, NEW a \in Approvals, Store!Create(e, p, a),
         \A b \in Approvals : Recorded(b) => approvals[b].exec # e
  PROVE  /\ disk' = approvals'
         /\ ~Recorded(a) /\ Recorded(a)' /\ approvals'[a].exec = e
         /\ approvals'[a].status = "pending"
         /\ \A b \in Approvals \ {a} :
              /\ Recorded(b)' <=> Recorded(b)
              /\ Recorded(b) => approvals'[b].exec = approvals[b].exec
              /\ approvals'[b].status = "approved" <=> approvals[b].status = "approved"
<1>1. a \notin Store!Matching(Store!Current, e, p)
  <2>. SUFFICES ASSUME a \in Store!Matching(Store!Current, e, p)
                PROVE  FALSE
    OBVIOUS
  <2>1. Store!Current[a].exec = e /\ Store!Current[a].status \in {"pending", "approved"}
    BY DEF Store!Matching
  <2>2. Recorded(a)
    BY <2>1, CurrentKeeps DEF TInv, TypeOK, Recorded, Store!NoRecord
  <2>. QED
    BY <2>1, <2>2, CurrentKeeps DEF TInv, TypeOK
<1>. DEFINE fresh == [status |-> "pending", exec |-> e, payload |-> p]
            new == [Store!Current EXCEPT ![a] = fresh]
<1>2. a \notin issued /\ approvals' = new /\ disk' = new
  BY <1>1, CommitInStep DEF Store!Create
<1>3. ~Recorded(a)
  BY <1>2 DEF TInv, OnlyIssued, Recorded
<1>4. /\ new[a] = fresh /\ fresh # Store!NoRecord /\ fresh.exec = e /\ fresh.status = "pending"
      /\ \A b \in Approvals \ {a} : new[b] = Store!Current[b]
  BY CurrentKeeps DEF TInv, TypeOK, Store!Store, Store!NoRecord
<1>. HIDE DEF new, fresh
<1>. QED
  BY <1>2, <1>3, <1>4, CurrentKeeps, CurrentStays DEF TInv, TypeOK, Recorded

-----------------------------------------------------------------------------
(* What a step of the store leaves of a command's approval and grant. *)
LEMMA MovesKeepBound ==
  ASSUME StoreMoves, NEW e \in Executions
  PROVE  /\ Bound(e)' = Bound(e)
         /\ Granted(e) => Granted(e)'
         /\ StoreStays => (Granted(e)' <=> Granted(e))
<1>1. Bound(e)' = Bound(e)
  BY DEF StoreMoves, Bound, Recorded
<1>. QED
  BY <1>1 DEF StoreMoves, StoreStays, Granted, Bound, Recorded

(* A new content of the registry names the command's own approvals and forgets
   no command. *)
RegistryMoves ==
  /\ \A e \in Commands : registry'[e] # NoEntry => registry'[e].approval \in Bound(e)
  /\ \A e \in Executions : registry[e] # NoEntry => registry'[e] # NoEntry
  /\ \/ registryFile' = registry'
     \/ registryFile' = registryFile

(* Leaving the registry alone. *)
LEMMA RegistryStays ==
  ASSUME EInv, UNCHANGED registryVars
  PROVE  RegistryMoves
  BY DEF EInv, RegistryIsBound, EntriesAreBound, registryVars, RegistryMoves

(* Registering under an approval of the execution, or under the one it has. *)
LEMMA RegisterMoves ==
  ASSUME DiskMayFail = FALSE, EInv,
         NEW e \in Executions, NEW state \in {"NONE", "EXECUTING", "BLOCKED"},
         NEW a \in Approvals \cup {NoApproval}, Register(e, state, a),
         e \in Commands => a \in Bound(e) \/ (a = NoApproval /\ registry[e] # NoEntry)
  PROVE  RegistryMoves /\ registry'[e] # NoEntry
<1>. DEFINE old == registry[e]
            entry == [state    |-> IF state = "NONE" /\ old # NoEntry THEN old.state ELSE state,
                      approval |-> IF a = NoApproval /\ old # NoEntry THEN old.approval ELSE a]
<1>1. /\ registry' = [registry EXCEPT ![e] = entry] /\ registryFile' = registry'
  BY DEF Register, Put
<1>2. entry # NoEntry
  BY DEF NoEntry
<1>3. e \in Commands => entry.approval \in Bound(e)
  <2>1. CASE a = NoApproval /\ old # NoEntry
    BY <2>1 DEF EInv, RegistryIsBound, EntriesAreBound
  <2>2. CASE ~(a = NoApproval /\ old # NoEntry)
    BY <2>2
  <2>. QED
    BY <2>1, <2>2
<1>. HIDE DEF entry
<1>4. registry'[e] = entry /\ \A d \in Executions \ {e} : registry'[d] = registry[d]
  BY <1>1 DEF EInv, TInv, TypeOK, Entries
<1>5. Commands \subseteq Executions
  BY DEF Commands
<1>. QED
  BY <1>1, <1>2, <1>3, <1>4, <1>5 DEF EInv, RegistryIsBound, EntriesAreBound, RegistryMoves

(* Setting the state of a registered execution. *)
LEMMA SetStateMoves ==
  ASSUME DiskMayFail = FALSE, EInv, NEW e \in Executions, NEW state \in Terminal,
         SetState(e, state), registry[e] # NoEntry
  PROVE  RegistryMoves /\ registry'[e] # NoEntry
<1>. DEFINE entry == [state |-> state, approval |-> registry[e].approval]
<1>1. /\ registry' = [registry EXCEPT ![e] = entry] /\ registryFile' = registry'
  BY DEF SetState, Put
<1>2. entry # NoEntry /\ entry.approval = registry[e].approval
  BY DEF NoEntry
<1>. HIDE DEF entry
<1>3. registry'[e] = entry /\ \A d \in Executions \ {e} : registry'[d] = registry[d]
  BY <1>1 DEF EInv, TInv, TypeOK, Entries
<1>4. Commands \subseteq Executions
  BY DEF Commands
<1>. QED
  BY <1>1, <1>2, <1>3, <1>4 DEF EInv, RegistryIsBound, EntriesAreBound, RegistryMoves

(* Memory and file of the registry go on naming the commands' own approvals. *)
LEMMA MovesKeepRegistry ==
  ASSUME EInv, StoreMoves, RegistryMoves
  PROVE  RegistryIsBound'
<1>1. \A e \in Commands : Bound(e)' = Bound(e)
  BY MovesKeepBound DEF Commands
<1>2. EntriesAreBound(registry)'
  BY <1>1 DEF RegistryMoves, EntriesAreBound
<1>3. CASE registryFile' = registry'
  BY <1>2, <1>3 DEF RegistryIsBound, EntriesAreBound
<1>4. CASE registryFile' = registryFile
  BY <1>1, <1>2, <1>4 DEF EInv, RegistryIsBound, EntriesAreBound
<1>. QED
  BY <1>3, <1>4 DEF RegistryMoves

(* The approvals of the commands stay one each. *)
LEMMA MovesKeepOne ==
  ASSUME EInv, TInv', StoreMoves,
         \A e \in Executions : submission[e] # "new" => submission'[e] # "new"
  PROVE  OneApproval'
<1>1. \A a \in Approvals : Recorded(a) => approvals[a].exec \in Executions
  BY DEF EInv, OneApproval, Commands
<1>. QED
  BY <1>1 DEF EInv, OneApproval, StoreMoves

(* Who holds the event loop is alone in what needs it. *)
LEMMA HolderIsAlone ==
  ASSUME EInv, NEW r \in Approvers, loop \in {Free, r}
  PROVE  /\ \A q \in Approvers \ {r} : approver[q].pc \notin Holding
         /\ \A e \in Executions : submission[e] # "created"
  BY GovernedAssumption DEF EInv, LoopIsHeld

(* A step of r's coroutine, which holds the loop or finds it free. *)
LEMMA CoroutineEInv ==
  ASSUME EInv, TInv', StoreMoves, RegistryMoves, EffectsAreGranted',
         NEW r \in Approvers, loop \in {Free, r},
         \A q \in Approvers \ {r} : approver'[q] = approver[q],
         \A e \in Executions : /\ submission'[e] = "created" => submission[e] = "created"
                               /\ submission[e] # "new" => submission'[e] # "new",
         approver'[r].pc \in Holding => loop' = r,
         approver'[r].pc \in {"checked", "decided", "recorded"} =>
           dispatched'[approvals'[approver'[r].approval].exec] = 0,
         approver'[r].pc \in {"decided", "recorded"} =>
           approver'[r].exec = approvals'[approver'[r].approval].exec,
         approver'[r].pc = "cleared" /\ approver'[r].exec \in Commands =>
           dispatched'[approver'[r].exec] = 0 /\ Granted(approver'[r].exec),
         approver'[r].pc \in {"cleared", "running", "logging"} =>
           registry'[approver'[r].exec] # NoEntry
  PROVE  EInv'
<1>1. OneApproval' /\ RegistryIsBound' /\ disk' = approvals'
  BY MovesKeepOne, MovesKeepRegistry DEF StoreMoves
<1>2. /\ \A q \in Approvers \ {r} : approver'[q] = approver[q] /\ approver[q].pc \notin Holding
      /\ \A e \in Executions : submission'[e] # "created"
  BY HolderIsAlone
<1>3. LoopIsHeld'
  BY <1>2 DEF LoopIsHeld
<1>4. CoroutineIsFirst'
  <2>. SUFFICES ASSUME NEW q \in Approvers
                PROVE  /\ approver'[q].pc \in {"checked", "decided", "recorded"} =>
                            dispatched'[approvals'[approver'[q].approval].exec] = 0
                       /\ approver'[q].pc \in {"decided", "recorded"} =>
                            approver'[q].exec = approvals'[approver'[q].approval].exec
                       /\ approver'[q].pc = "cleared" /\ approver'[q].exec \in Commands =>
                            /\ dispatched'[approver'[q].exec] = 0
                            /\ \E a \in Approvals : /\ approvals'[a] # Store!NoRecord
                                                     /\ approvals'[a].exec = approver'[q].exec
                                                     /\ approvals'[a].status = "approved"
                       /\ approver'[q].pc \in {"cleared", "running", "logging"} =>
                            registry'[approver'[q].exec] # NoEntry
    BY DEF CoroutineIsFirst, Granted, Bound
  <2>1. CASE q = r
    <3>1. approver'[r].pc = "cleared" /\ approver'[r].exec \in Commands =>
            \E a \in Approvals : /\ approvals'[a] # Store!NoRecord
                                 /\ approvals'[a].exec = approver'[r].exec
                                 /\ approvals'[a].status = "approved"
      BY DEF Granted, Bound, Recorded, StoreMoves
    <3>. QED
      BY <2>1, <3>1
  <2>2. CASE q # r
    <3>1. approver[q].pc \in {"running", "logging"} => approver[q].exec \in Executions
      BY DEF EInv, TInv, CoroutineHas
    <3>. QED
      BY <1>2, <2>2, <3>1 DEF EInv, CoroutineIsFirst, Holding, RegistryMoves
  <2>. QED
    BY <2>1, <2>2
<1>. QED
  BY <1>1, <1>3, <1>4 DEF EInv

(* Effects stay granted when nothing is dispatched. *)
LEMMA MovesKeepEffects ==
  ASSUME EInv, StoreMoves, UNCHANGED dispatched
  PROVE  EffectsAreGranted'
<1>1. \A e \in Commands : Granted(e) => Granted(e)'
  BY MovesKeepBound DEF Commands
<1>. QED
  BY <1>1 DEF EInv, EffectsAreGranted

(* A step of a thread, the clock or the gate. *)
LEMMA ThreadEInv ==
  ASSUME EInv, TInv', StoreStays,
         UNCHANGED <<registryVars, submission, approver, loop, dispatched>>
  PROVE  EInv'
<1>1. StoreMoves /\ RegistryMoves
  BY RegistryStays DEF StoreStays
<1>2. OneApproval' /\ RegistryIsBound' /\ disk' = approvals' /\ EffectsAreGranted'
  BY <1>1, MovesKeepOne, MovesKeepRegistry, MovesKeepEffects DEF StoreMoves
<1>3. LoopIsHeld'
  BY DEF EInv, LoopIsHeld
<1>4. \A e \in Commands : Granted(e) => Granted(e)'
  BY <1>1, MovesKeepBound DEF Commands
<1>5. CoroutineIsFirst'
  BY <1>1, <1>4 DEF EInv, TInv, CoroutineHas, CoroutineIsFirst, StoreMoves, registryVars
<1>. QED
  BY <1>2, <1>3, <1>5 DEF EInv

-----------------------------------------------------------------------------
(* Without a grant or a start nothing happens to the effects. *)
LEMMA StaysIsStutter ==
  ASSUME StoreStays, UNCHANGED dispatched
  PROVE  UNCHANGED Effects!vars
<1>1. \A c \in Commands : Granted(c)' <=> Granted(c)
  BY MovesKeepBound DEF Commands, StoreStays
<1>2. {c \in Commands : Granted(c)}' = {c \in Commands : Granted(c)}
  BY <1>1
<1>. QED
  BY <1>2 DEF Effects!vars

(* A command's only approval decides whether it is granted. *)
LEMMA PendingIsUngranted ==
  ASSUME EInv, NEW a \in Approvals, Recorded(a), approvals[a].status # "approved"
  PROVE  /\ approvals[a].exec \in Commands /\ ~Granted(approvals[a].exec)
         /\ dispatched[approvals[a].exec] = 0
<1>1. approvals[a].exec \in Commands /\ ~Granted(approvals[a].exec)
  BY DEF EInv, OneApproval, Granted, Bound, Recorded
<1>. QED
  BY <1>1 DEF EInv, EffectsAreGranted

(* A new command gets its only approval. *)
LEMMA SubmitCreateEInv ==
  ASSUME DiskMayFail = FALSE, EInv, TInv',
         NEW e \in Executions, NEW a \in Approvals, SubmitCreate(e, a)
  PROVE  EInv' /\ UNCHANGED Effects!vars
<1>1. /\ submission[e] = "new" /\ e \in Commands
      /\ submission' = [submission EXCEPT ![e] = "created"]
      /\ loop = Free /\ loop' = e
      /\ UNCHANGED <<registryVars, approver, dispatched>>
  BY DEF SubmitCreate, Commands
<1>2. \A b \in Approvals : Recorded(b) => approvals[b].exec # e
  BY <1>1 DEF EInv, OneApproval
<1>3. /\ disk' = approvals'
      /\ ~Recorded(a) /\ Recorded(a)' /\ approvals'[a].exec = e
      /\ approvals'[a].status = "pending"
      /\ \A b \in Approvals \ {a} :
           /\ Recorded(b)' <=> Recorded(b)
           /\ Recorded(b) => approvals'[b].exec = approvals[b].exec
           /\ approvals'[b].status = "approved" <=> approvals[b].status = "approved"
  BY <1>2, CreateMoves DEF EInv, SubmitCreate
<1>4. submission'[e] = "created" /\ \A d \in Executions \ {e} : submission'[d] = submission[d]
  BY <1>1 DEF EInv, TInv, TypeOK
<1>5. OneApproval'
  <2>1. \A b \in Approvals : Recorded(b) => approvals[b].exec \in Commands
    BY DEF EInv, OneApproval
  <2>2. Commands \subseteq Executions
    BY DEF Commands
  <2>3. ASSUME NEW b \in Approvals, Recorded(b)'
        PROVE  /\ approvals'[b].exec \in Commands /\ submission'[approvals'[b].exec] # "new"
               /\ \A d \in Approvals : Recorded(d)' /\ approvals'[d].exec = approvals'[b].exec
                                         => d = b
    <3>1. CASE b = a
      BY <1>1, <1>2, <1>3, <1>4, <3>1
    <3>2. CASE b # a
      <4>1. Recorded(b) /\ approvals'[b].exec = approvals[b].exec /\ approvals[b].exec # e
        BY <1>2, <1>3, <2>3, <3>2
      <4>2. submission[approvals[b].exec] # "new"
        BY <4>1 DEF EInv, OneApproval
      <4>3. \A d \in Approvals : Recorded(d)' /\ approvals'[d].exec = approvals'[b].exec => d = b
        BY <1>3, <4>1 DEF EInv, OneApproval
      <4>. QED
        BY <1>4, <2>1, <2>2, <4>1, <4>2, <4>3
    <3>. QED
      BY <3>1, <3>2
  <2>. QED
    BY <2>3 DEF OneApproval
<1>6. \A d \in Executions : /\ Bound(d) \subseteq Bound(d)'
                            /\ Granted(d)' <=> Granted(d)
  <2>1. ASSUME NEW d \in Executions
        PROVE  Bound(d) \subseteq Bound(d)' /\ (Granted(d)' <=> Granted(d))
    <3>1. \A b \in Approvals \ {a} : b \in Bound(d)' <=> b \in Bound(d)
      BY <1>3 DEF Bound, Recorded
    <3>2. a \notin Bound(d)
      BY <1>3 DEF Bound, Recorded
    <3>. QED
      BY <1>3, <3>1, <3>2 DEF Granted, Bound
  <2>. QED
    BY <2>1
<1>7. RegistryIsBound'
  <2>1. \A d \in Commands : Bound(d) \subseteq Bound(d)'
    BY <1>6 DEF Commands
  <2>. QED
    BY <1>1, <2>1 DEF EInv, RegistryIsBound, EntriesAreBound, registryVars
<1>8. \A r \in Approvers : approver[r].pc \notin Holding
  BY <1>1, GovernedAssumption DEF EInv, LoopIsHeld
<1>9. LoopIsHeld'
  BY <1>1, <1>4, <1>8, GovernedAssumption DEF EInv, LoopIsHeld
<1>10. CoroutineIsFirst'
  BY <1>1, <1>8 DEF EInv, CoroutineIsFirst, Holding, registryVars
<1>11. EffectsAreGranted'
  BY <1>1, <1>6 DEF EInv, EffectsAreGranted, Commands
<1>12. UNCHANGED Effects!vars
  <2>1. {c \in Commands : Granted(c)}' = {c \in Commands : Granted(c)}
    BY <1>6 DEF Commands
  <2>. QED
    BY <1>1, <2>1 DEF Effects!vars
<1>. QED
  BY <1>3, <1>5, <1>7, <1>9, <1>10, <1>11, <1>12 DEF EInv

(* The registration of a submitted command, under its own approval. *)
LEMMA SubmitEInv ==
  ASSUME DiskMayFail = FALSE, EInv, TInv', NEW e \in Executions, Submit(e)
  PROVE  EInv' /\ UNCHANGED Effects!vars
<1>1. /\ submission[e] = "created" /\ loop = e
      /\ submission' = [submission EXCEPT ![e] = "done"] /\ loop' = Free
      /\ UNCHANGED <<approver, dispatched>>
      /\ UNCHANGED storeVars \/ Store!Touch
  BY DEF EInv, LoopIsHeld, Submit, SubmitRaw, SubmitExecute
<1>2. StoreStays /\ StoreMoves
  BY <1>1, TouchStays, IdleStays DEF EInv, StoreStays
<1>3. RegistryMoves
  <2>1. Created(e) \in Bound(e) /\ Created(e) \in Approvals
    BY <1>1, CreatedIsOurs DEF EInv, TInv, Bound, Recorded
  <2>2. Register(e, "NONE", Created(e)) \/ Register(e, "BLOCKED", Created(e))
    BY DEF Submit, SubmitRaw, SubmitExecute
  <2>. QED
    BY <2>1, <2>2, RegisterMoves
<1>4. /\ submission'[e] = "done"
      /\ \A d \in Executions \ {e} : submission'[d] = submission[d]
      /\ \A d \in Executions \ {e} : submission[d] # "created"
      /\ \A r \in Approvers : approver[r].pc \notin Holding
  BY <1>1, GovernedAssumption DEF EInv, TInv, TypeOK, LoopIsHeld
<1>5. OneApproval' /\ RegistryIsBound' /\ disk' = approvals' /\ EffectsAreGranted'
  BY <1>1, <1>2, <1>3, <1>4, MovesKeepOne, MovesKeepRegistry, MovesKeepEffects DEF StoreMoves
<1>6. LoopIsHeld'
  BY <1>1, <1>4 DEF LoopIsHeld
<1>7. CoroutineIsFirst'
  BY <1>1, <1>3, <1>4 DEF EInv, TInv, CoroutineHas, CoroutineIsFirst, Holding, RegistryMoves
<1>. QED
  BY <1>1, <1>2, <1>5, <1>6, <1>7, StaysIsStutter DEF EInv

(* What a coroutine's next place is. *)
LEMMA PlaceOf ==
  ASSUME EInv, NEW r \in Approvers,
         NEW pc \in {"checked", "decided", "recorded", "cleared", "running", "logging",
                    "finished", "done"},
         NEW result \in {"none"} \cup Terminal,
         \/ approver' = [approver EXCEPT ![r].pc = pc]
         \/ approver' = [approver EXCEPT ![r].pc = pc, ![r].result = result]
  PROVE  /\ approver'[r].pc = pc /\ approver'[r].exec = approver[r].exec
         /\ approver'[r].approval = approver[r].approval
         /\ \A q \in Approvers \ {r} : approver'[q] = approver[q]
  BY DEF EInv, TInv, TypeOK, Coroutine

(* The first look starts a coroutine on a pending approval, which no grant and
   no effect has preceded. *)
LEMMA ApproveBeginEInv ==
  ASSUME DiskMayFail = FALSE, EInv, TInv',
         NEW r \in Approvers, NEW a \in Approvals, ApproveBegin(r, a)
  PROVE  EInv' /\ UNCHANGED Effects!vars
<1>1. /\ loop = Free /\ UNCHANGED <<registryVars, submission, dispatched>>
      /\ UNCHANGED storeVars \/ Store!Touch
  BY DEF ApproveBegin
<1>2. StoreStays /\ StoreMoves /\ RegistryMoves
  BY <1>1, TouchStays, IdleStays, RegistryStays DEF EInv, StoreStays
<1>3. EffectsAreGranted'
  BY <1>1, <1>2, MovesKeepEffects
<1>4. /\ \A q \in Approvers \ {r} : approver'[q] = approver[q]
      /\ approver'[r].approval = a
      /\ \/ approver'[r].pc = "done"
         \/ approver'[r].pc = "checked" /\ loop' = r /\ Store!Current[a].status = "pending"
  BY DEF ApproveBegin, EInv, TInv, TypeOK, Idle
<1>5. Store!Current[a].status = "pending" => dispatched'[approvals'[a].exec] = 0
  <2>. SUFFICES ASSUME Store!Current[a].status = "pending"
                PROVE  dispatched'[approvals'[a].exec] = 0
    OBVIOUS
  <2>1. approvals[a].status = "pending"
    BY CurrentStays DEF EInv, TInv, TypeOK
  <2>2. Recorded(a)
    BY <2>1 DEF Recorded, Store!NoRecord
  <2>3. dispatched[approvals[a].exec] = 0
    BY <2>1, <2>2, PendingIsUngranted
  <2>. QED
    BY <1>1, <1>2, <2>2, <2>3 DEF StoreMoves
<1>6. EInv'
  BY <1>1, <1>2, <1>3, <1>4, <1>5, CoroutineEInv DEF Holding
<1>. QED
  BY <1>1, <1>2, <1>6, StaysIsStutter

(* The grant: of the command's only approval, or of nothing if a thread was
   first. *)
LEMMA ApproveDecideEInv ==
  ASSUME DiskMayFail = FALSE, EInv, TInv', NEW r \in Approvers, ApproveDecide(r)
  PROVE  EInv' /\ [Effects!Next]_Effects!vars
<1>. DEFINE a == approver[r].approval
<1>1. /\ approver[r].pc = "checked" /\ loop = r /\ a \in Approvals /\ Recorded(a)
      /\ dispatched[approvals[a].exec] = 0
  BY DEF ApproveDecide, EInv, TInv, CoroutineHas, LoopIsHeld, Holding, CoroutineIsFirst
<1>2. /\ Store!Approve(a) /\ UNCHANGED <<registryVars, submission, dispatched>>
      /\ loop' \in {Free, r}
  BY DEF ApproveDecide
<1>3. StoreMoves /\ RegistryMoves
  BY <1>1, <1>2, ApproveMoves, RegistryStays DEF EInv
<1>4. EffectsAreGranted'
  BY <1>2, <1>3, MovesKeepEffects
<1>5. /\ \A q \in Approvers \ {r} : approver'[q] = approver[q]
      /\ approver'[r].approval = a /\ approver'[r].exec = approvals[a].exec
      /\ approver'[r].pc = "done" \/ (approver'[r].pc = "decided" /\ loop' = r)
  <2>. DEFINE pc == IF Store!Current[a].status = "expired" THEN "done" ELSE "decided"
              next == [approver[r] EXCEPT !.pc = pc, !.exec = approvals[a].exec]
  <2>1. approver' = [approver EXCEPT ![r] = next] /\ (pc = "done" \/ loop' = r)
    BY DEF ApproveDecide, EInv, TInv, TypeOK
  <2>2. /\ approver \in [Approvers -> Coroutine] /\ pc \in {"done", "decided"}
    BY DEF EInv, TInv, TypeOK
  <2>. HIDE DEF pc
  <2>3. next.pc = pc /\ next.approval = a /\ next.exec = approvals[a].exec
    BY <2>2 DEF Coroutine
  <2>. HIDE DEF next
  <2>. QED
    BY <2>1, <2>2, <2>3
<1>6. approvals'[a].exec = approvals[a].exec
  BY <1>1, <1>3 DEF StoreMoves
<1>7. EInv'
  BY <1>1, <1>2, <1>3, <1>4, <1>5, <1>6, CoroutineEInv DEF Holding
<1>8. CASE Store!Current[a].status # "pending"
  BY <1>1, <1>2, <1>7, <1>8, ApproveMoves, StaysIsStutter DEF EInv
<1>9. CASE Store!Current[a].status = "pending"
  <2>. DEFINE c == approvals[a].exec
  <2>1. c \in Commands
    BY <1>1 DEF EInv, OneApproval
  <2>2. \A d \in Commands : Bound(d)' = Bound(d)
    BY <1>3, MovesKeepBound DEF Commands
  <2>3. a \in Bound(c) /\ approvals'[a].status = "approved"
    BY <1>1, <1>2, <1>9, ApproveMoves DEF EInv, Bound, Recorded
  <2>4. \A d \in Commands \ {c} : a \notin Bound(d)
    BY DEF Bound
  <2>5. \A b \in Approvals \ {a} :
          approvals'[b].status = "approved" <=> approvals[b].status = "approved"
    BY <1>1, <1>2, <1>3, ApproveMoves DEF EInv, StoreMoves
  <2>6. \A d \in Commands : Granted(d)' <=> Granted(d) \/ d = c
    <3>1. ASSUME NEW d \in Commands
          PROVE  Granted(d)' <=> Granted(d) \/ d = c
      <4>1. Bound(d) \subseteq Approvals
        BY DEF Bound
      <4>2. Granted(d)' <=> \E b \in Bound(d) : approvals'[b].status = "approved"
        BY <2>2 DEF Granted
      <4>3. CASE d = c
        BY <2>3, <4>2, <4>3
      <4>4. CASE d # c
        <5>1. \A b \in Bound(d) : b \in Approvals \ {a}
          BY <2>4, <4>1, <4>4
        <5>. QED
          BY <2>5, <4>2, <4>4, <5>1 DEF Granted
      <4>. QED
        BY <4>3, <4>4
    <3>. QED
      BY <3>1
  <2>7. {d \in Commands : Granted(d)}' = {d \in Commands : Granted(d)} \cup {c}
    BY <2>1, <2>6
  <2>8. Effects!Grant(c)
    BY <1>2, <2>7 DEF Effects!Grant
  <2>. QED
    BY <1>7, <2>1, <2>8 DEF Effects!Next
<1>. QED
  BY <1>7, <1>8, <1>9

(* Recording the decision changes nothing of all this. *)
LEMMA ApproveRecordEInv ==
  ASSUME EInv, TInv', NEW r \in Approvers, ApproveRecord(r)
  PROVE  EInv' /\ UNCHANGED Effects!vars
<1>1. /\ approver[r].pc = "decided" /\ loop = r /\ loop' = r
      /\ approver[r].approval \in Approvals /\ Recorded(approver[r].approval)
      /\ dispatched[approvals[approver[r].approval].exec] = 0
      /\ approver[r].exec = approvals[approver[r].approval].exec
  BY DEF ApproveRecord, EInv, TInv, CoroutineHas, LoopIsHeld, Holding, CoroutineIsFirst
<1>2. UNCHANGED <<storeVars, registryVars, submission, dispatched>>
  BY DEF ApproveRecord
<1>3. StoreStays /\ StoreMoves /\ RegistryMoves /\ EffectsAreGranted'
  BY <1>2, IdleStays, RegistryStays, MovesKeepEffects DEF EInv, StoreStays
<1>4. /\ approver'[r].pc = "recorded" /\ approver'[r].exec = approver[r].exec
      /\ approver'[r].approval = approver[r].approval
      /\ \A q \in Approvers \ {r} : approver'[q] = approver[q]
  BY PlaceOf DEF ApproveRecord
<1>5. EInv'
  BY <1>1, <1>2, <1>3, <1>4, CoroutineEInv DEF storeVars
<1>. QED
  BY <1>2, <1>3, <1>5, StaysIsStutter

(* An execution is cleared only when its own approval is granted. *)
LEMMA ResumeEInv ==
  ASSUME DiskMayFail = FALSE, EInv, TInv', NEW r \in Approvers, Resume(r)
  PROVE  EInv' /\ UNCHANGED Effects!vars
<1>. DEFINE e == approver[r].exec
<1>1. /\ approver[r].pc = "recorded" /\ loop = r /\ e \in Executions
      /\ dispatched[e] = 0
  BY DEF Resume, EInv, TInv, CoroutineHas, LoopIsHeld, Holding, CoroutineIsFirst
<1>2. UNCHANGED <<submission, dispatched>> /\ (UNCHANGED storeVars \/ Store!Touch)
  BY DEF Resume
<1>3. StoreStays /\ StoreMoves /\ EffectsAreGranted'
  BY <1>2, TouchStays, IdleStays, MovesKeepEffects DEF EInv, StoreStays
<1>4. CASE /\ registry[e] # NoEntry /\ MayResume(e)
           /\ Register(e, "EXECUTING", NoApproval)
           /\ approver' = [approver EXCEPT ![r].pc = "cleared"] /\ UNCHANGED loop
  <2>1. RegistryMoves /\ registry'[e] # NoEntry
    BY <1>1, <1>4, RegisterMoves
  <2>2. e \in Commands => Granted(e)
    <3>1. e \in Commands => registry[e].approval \in Bound(e)
      BY <1>4 DEF EInv, RegistryIsBound, EntriesAreBound
    <3>2. \A a \in Approvals : Store!FullyApproved(a) => approvals[a].status = "approved"
      BY CurrentStays DEF EInv, TInv, TypeOK, Store!FullyApproved
    <3>. QED
      BY <1>4, <3>1, <3>2 DEF MayResume, Granted, Bound
  <2>3. /\ approver'[r].pc = "cleared" /\ approver'[r].exec = e
        /\ \A q \in Approvers \ {r} : approver'[q] = approver[q]
    BY <1>4, PlaceOf
  <2>4. EInv'
    BY <1>1, <1>2, <1>3, <1>4, <2>1, <2>2, <2>3, CoroutineEInv
  <2>. QED
    BY <1>2, <1>3, <2>4, StaysIsStutter
<1>5. CASE /\ UNCHANGED registryVars
           /\ \/ approver' = [approver EXCEPT ![r].pc = "done"]
              \/ /\ approver' = [approver EXCEPT ![r].pc = "finished", ![r].result = "BLOCKED"]
                 /\ UNCHANGED loop
  <2>1. RegistryMoves
    BY <1>5, RegistryStays
  <2>2. /\ \/ approver'[r].pc = "done"
           \/ (approver'[r].pc = "finished" /\ loop' = r)
        /\ \A q \in Approvers \ {r} : approver'[q] = approver[q]
    BY <1>1, <1>5, PlaceOf DEF Terminal
  <2>3. EInv'
    BY <1>1, <1>2, <1>3, <2>1, <2>2, CoroutineEInv DEF Holding
  <2>. QED
    BY <1>2, <1>3, <2>3, StaysIsStutter
<1>. QED
  BY <1>4, <1>5 DEF Resume

(* The start of a command's executor is its first, after its grant. *)
LEMMA DispatchEInv ==
  ASSUME DiskMayFail = FALSE, EInv, TInv', NEW r \in Approvers, Dispatch(r)
  PROVE  EInv' /\ [Effects!Next]_Effects!vars
<1>. DEFINE e == approver[r].exec
<1>1. /\ approver[r].pc = "cleared" /\ loop = r /\ e \in Executions
      /\ e \in Commands => dispatched[e] = 0 /\ Granted(e)
      /\ registry[e] # NoEntry
  BY DEF Dispatch, EInv, TInv, CoroutineHas, LoopIsHeld, Holding, CoroutineIsFirst
<1>2. UNCHANGED <<storeVars, submission>>
  BY DEF Dispatch
<1>3. StoreStays /\ StoreMoves
  BY <1>2, IdleStays DEF EInv, StoreStays
<1>4. CASE /\ SetState(e, "BLOCKED") /\ UNCHANGED <<loop, dispatched>>
           /\ approver' = [approver EXCEPT ![r].pc = "finished", ![r].result = "BLOCKED"]
  <2>1. RegistryMoves /\ EffectsAreGranted'
    BY <1>1, <1>3, <1>4, SetStateMoves, MovesKeepEffects DEF Terminal
  <2>2. /\ approver'[r].pc = "finished" /\ loop' = r
        /\ \A q \in Approvers \ {r} : approver'[q] = approver[q]
    BY <1>1, <1>4, PlaceOf DEF Terminal
  <2>3. EInv'
    BY <1>1, <1>2, <1>3, <2>1, <2>2, CoroutineEInv
  <2>. QED
    BY <1>3, <1>4, <2>3, StaysIsStutter
<1>5. CASE /\ dispatched' = [dispatched EXCEPT ![e] = @ + 1] /\ UNCHANGED registryVars
           /\ approver' = [approver EXCEPT ![r].pc = "running"]
  <2>1. RegistryMoves
    BY <1>5, RegistryStays
  <2>2. /\ dispatched'[e] = dispatched[e] + 1
        /\ \A d \in Executions \ {e} : dispatched'[d] = dispatched[d]
    BY <1>1, <1>5 DEF EInv, TInv, TypeOK
  <2>3. Commands \subseteq Executions /\ \A d \in Commands : Granted(d)' <=> Granted(d)
    BY <1>3, MovesKeepBound DEF Commands
  <2>4. EffectsAreGranted'
    BY <1>1, <2>2, <2>3 DEF EInv, EffectsAreGranted
  <2>5. /\ approver'[r].pc = "running" /\ approver'[r].exec = e
        /\ \A q \in Approvers \ {r} : approver'[q] = approver[q]
    BY <1>5, PlaceOf
  <2>6. registry'[e] # NoEntry
    BY <1>1, <1>5 DEF registryVars
  <2>7. EInv'
    BY <1>1, <1>2, <1>3, <2>1, <2>4, <2>5, <2>6, CoroutineEInv DEF Holding
  <2>8. UNCHANGED {c \in Commands : Granted(c)}
    BY <2>3
  <2>9. CASE e \in Commands
    <3>1. PICK d \in Commands : d = e
      BY <2>9
    <3>2. \A c \in Commands : dispatched'[c] = IF c = d THEN 1 ELSE dispatched[c]
      BY <1>1, <2>2, <2>3, <3>1
    <3>3. [c \in Commands |-> dispatched[c]]'
            = [[c \in Commands |-> dispatched[c]] EXCEPT ![d] = 1]
      BY <3>2
    <3>4. Effects!Effect(d)
      BY <1>1, <2>8, <3>1, <3>3 DEF Effects!Effect
    <3>. QED
      BY <2>7, <3>4 DEF Effects!Next
  <2>10. CASE e \notin Commands
    <3>1. UNCHANGED [c \in Commands |-> dispatched[c]]
      BY <2>2, <2>3, <2>10
    <3>. QED
      BY <2>7, <2>8, <3>1 DEF Effects!vars
  <2>. QED
    BY <2>9, <2>10
<1>. QED
  BY <1>4, <1>5 DEF Dispatch

(* The end of an executor: no grant and no start, whatever it comes back with. *)
LEMMA ReturnEInv ==
  ASSUME DiskMayFail = FALSE, EInv, TInv', NEW r \in Approvers, NEW outcome \in Terminal,
         Return(r, outcome)
  PROVE  EInv' /\ UNCHANGED Effects!vars
<1>. DEFINE e == approver[r].exec
<1>1. /\ loop = Free /\ e \in Executions /\ registry[e] # NoEntry
      /\ UNCHANGED <<storeVars, submission, dispatched>>
  BY DEF Return, EInv, TInv, CoroutineHas, CoroutineIsFirst
<1>2. StoreStays /\ StoreMoves /\ EffectsAreGranted'
  BY <1>1, IdleStays, MovesKeepEffects DEF EInv, StoreStays
<1>3. CASE /\ approver' = [approver EXCEPT ![r].pc = "logging"]
           /\ UNCHANGED <<registryVars, loop>>
  <2>1. RegistryMoves
    BY <1>3, RegistryStays
  <2>2. /\ approver'[r].pc = "logging" /\ approver'[r].exec = e
        /\ \A q \in Approvers \ {r} : approver'[q] = approver[q]
    BY <1>3, PlaceOf
  <2>3. registry'[e] # NoEntry
    BY <1>1, <1>3 DEF registryVars
  <2>4. EInv'
    BY <1>1, <1>2, <2>1, <2>2, <2>3, CoroutineEInv DEF Holding
  <2>. QED
    BY <1>1, <1>2, <2>4, StaysIsStutter
<1>4. CASE /\ SetState(e, outcome) /\ loop' = r
           /\ approver' = [approver EXCEPT ![r].pc = "finished", ![r].result = outcome]
  <2>1. RegistryMoves
    BY <1>1, <1>4, SetStateMoves
  <2>2. /\ approver'[r].pc = "finished"
        /\ \A q \in Approvers \ {r} : approver'[q] = approver[q]
    BY <1>4, PlaceOf
  <2>3. EInv'
    BY <1>1, <1>2, <1>4, <2>1, <2>2, CoroutineEInv
  <2>. QED
    BY <1>1, <1>2, <2>3, StaysIsStutter
<1>. QED
  BY <1>3, <1>4 DEF Return

(* The end of the handoff write. *)
LEMMA ReturnLoggedEInv ==
  ASSUME DiskMayFail = FALSE, EInv, TInv', NEW r \in Approvers, ReturnLogged(r)
  PROVE  EInv' /\ UNCHANGED Effects!vars
<1>. DEFINE e == approver[r].exec
<1>1. /\ loop = Free /\ loop' = r /\ e \in Executions /\ registry[e] # NoEntry
      /\ UNCHANGED <<storeVars, submission, dispatched>>
      /\ SetState(e, "COMPLETED")
      /\ approver' = [approver EXCEPT ![r].pc = "finished", ![r].result = "COMPLETED"]
  BY DEF ReturnLogged, EInv, TInv, CoroutineHas, CoroutineIsFirst
<1>2. StoreStays /\ StoreMoves /\ EffectsAreGranted'
  BY <1>1, IdleStays, MovesKeepEffects DEF EInv, StoreStays
<1>3. RegistryMoves
  BY <1>1, SetStateMoves DEF Terminal
<1>4. /\ approver'[r].pc = "finished"
      /\ \A q \in Approvers \ {r} : approver'[q] = approver[q]
  BY <1>1, PlaceOf DEF Terminal
<1>5. EInv'
  BY <1>1, <1>2, <1>3, <1>4, CoroutineEInv
<1>. QED
  BY <1>1, <1>2, <1>5, StaysIsStutter

(* The answer lets go of the event loop. *)
LEMMA AnswerEInv ==
  ASSUME EInv, TInv', NEW r \in Approvers, Answer(r)
  PROVE  EInv' /\ UNCHANGED Effects!vars
<1>1. /\ loop = r /\ UNCHANGED <<storeVars, registryVars, submission, dispatched>>
      /\ approver' = [approver EXCEPT ![r].pc = "done"]
  BY DEF Answer, EInv, LoopIsHeld, Holding
<1>2. StoreStays /\ StoreMoves /\ RegistryMoves /\ EffectsAreGranted'
  BY <1>1, IdleStays, RegistryStays, MovesKeepEffects DEF EInv, StoreStays
<1>3. approver'[r].pc = "done" /\ \A q \in Approvers \ {r} : approver'[q] = approver[q]
  BY <1>1, PlaceOf
<1>4. EInv'
  BY <1>1, <1>2, <1>3, CoroutineEInv DEF Holding
<1>. QED
  BY <1>1, <1>2, <1>4, StaysIsStutter

(* A refresh is not a command. *)
LEMMA RefreshEInv ==
  ASSUME DiskMayFail = FALSE, EInv, TInv',
         NEW r \in Approvers, NEW e \in Executions, Refresh(r, e)
  PROVE  EInv' /\ UNCHANGED Effects!vars
<1>1. /\ loop = Free /\ loop' = r /\ UNCHANGED <<storeVars, dispatched>>
      /\ e \notin Commands /\ Register(e, "EXECUTING", NoApproval)
  BY DEF Refresh, Commands
<1>2. StoreStays /\ StoreMoves /\ EffectsAreGranted'
  BY <1>1, IdleStays, MovesKeepEffects DEF EInv, StoreStays
<1>3. RegistryMoves /\ registry'[e] # NoEntry
  BY <1>1, RegisterMoves
<1>4. /\ approver'[r].pc = "cleared" /\ approver'[r].exec = e
      /\ \A q \in Approvers \ {r} : approver'[q] = approver[q]
  BY DEF Refresh, EInv, TInv, TypeOK, Idle
<1>5. \A d \in Executions : /\ submission'[d] = "created" => submission[d] = "created"
                            /\ submission[d] # "new" => submission'[d] # "new"
  BY DEF Refresh, EInv, TInv, TypeOK
<1>6. EInv'
  BY <1>1, <1>2, <1>3, <1>4, <1>5, CoroutineEInv
<1>. QED
  BY <1>1, <1>2, <1>6, StaysIsStutter

(* The threads, the clock and the gate, and no step at all. *)
LEMMA AsideEInv ==
  ASSUME DiskMayFail = FALSE, EInv, TInv',
         \/ \E t \in Rejecters : RejectRecord(t) \/ \E a \in Approvals : RejectDecide(t, a)
         \/ Elsewhere \/ Toggle \/ UNCHANGED vars
  PROVE  EInv' /\ UNCHANGED Effects!vars
<1>1. UNCHANGED <<registryVars, submission, approver, loop, dispatched>>
  BY DEF RejectRecord, RejectDecide, Elsewhere, Toggle, vars
<1>2. \/ UNCHANGED storeVars \/ Store!Touch
      \/ \E a \in Approvals : Store!Age(a) \/ Store!Reject(a)
  BY DEF RejectRecord, RejectDecide, Elsewhere, Toggle, vars
<1>3. StoreStays
  BY <1>2, IdleStays, TouchStays, AgeStays, RejectStays DEF EInv
<1>. QED
  BY <1>1, <1>3, ThreadEInv, StaysIsStutter

(* A crash keeps grants and starts; the new process finds in its registry the
   entries of the old one or none. *)
LEMMA CrashEInv ==
  ASSUME DiskMayFail = FALSE, EInv, TInv', Crash
  PROVE  EInv' /\ UNCHANGED Effects!vars
<1>1. StoreStays /\ StoreMoves
  BY RestartStays DEF EInv, Crash, StoreStays
<1>2. /\ approver' = [r \in Approvers |-> Idle] /\ Idle.pc = "idle"
      /\ submission' = [e \in Executions |-> IF submission[e] = "new" THEN "new" ELSE "done"]
      /\ UNCHANGED dispatched
  BY DEF Crash, Idle
<1>3. OneApproval' /\ EffectsAreGranted'
  BY <1>1, <1>2, MovesKeepOne, MovesKeepEffects
<1>4. RegistryIsBound'
  <2>1. PICK file \in {registryFile, Torn} :
          /\ registryFile' = file
          /\ registry' = IF file = Torn THEN [e \in Executions |-> NoEntry] ELSE file
    BY DEF Crash
  <2>2. Commands \subseteq Executions /\ \A e \in Commands : Bound(e)' = Bound(e)
    BY <1>1, MovesKeepBound DEF Commands
  <2>3. CASE file = Torn
    BY <2>1, <2>2, <2>3 DEF RegistryIsBound, EntriesAreBound
  <2>4. CASE file # Torn
    BY <2>1, <2>2, <2>4 DEF EInv, RegistryIsBound, EntriesAreBound
  <2>. QED
    BY <2>3, <2>4
<1>5. LoopIsHeld' /\ CoroutineIsFirst'
  BY <1>2 DEF LoopIsHeld, CoroutineIsFirst, Holding
<1>. QED
  BY <1>1, <1>2, <1>3, <1>4, <1>5, StaysIsStutter DEF EInv, StoreMoves

-----------------------------------------------------------------------------
(* At the start nothing is recorded, registered, granted or started. *)
LEMMA InitEInv == Init => EInv /\ Effects!Init
<1>. SUFFICES ASSUME Init
              PROVE  EInv /\ Effects!Init
  OBVIOUS
<1>1. TInv
  BY InitTInv
<1>2. /\ disk = approvals /\ \A a \in Approvals : ~Recorded(a)
      /\ registryFile = registry /\ \A e \in Executions : registry[e] = NoEntry
      /\ \A e \in Executions : submission[e] = "new" /\ dispatched[e] = 0
      /\ \A r \in Approvers : approver[r].pc = "idle"
  BY DEF Init, Store!Init, Store!Empty, Recorded, Idle
<1>3. Commands \subseteq Executions
  BY DEF Commands
<1>4. /\ OneApproval /\ RegistryIsBound /\ LoopIsHeld /\ CoroutineIsFirst
      /\ EffectsAreGranted
  BY <1>2, <1>3 DEF OneApproval, RegistryIsBound, EntriesAreBound, LoopIsHeld, Holding,
                    CoroutineIsFirst, EffectsAreGranted
<1>5. {c \in Commands : Granted(c)} = {}
  BY <1>2 DEF Granted, Bound, Recorded
<1>6. [c \in Commands |-> dispatched[c]] = [c \in Commands |-> 0]
  BY <1>2, <1>3
<1>. QED
  BY <1>1, <1>2, <1>4, <1>5, <1>6 DEF EInv, Effects!Init

(* Every step keeps the invariant, and is a grant, an effect or a stutter. *)
LEMMA NextEInv ==
  ASSUME DiskMayFail = FALSE, EInv, [Next]_vars
  PROVE  EInv' /\ [Effects!Next]_Effects!vars
<1>1. TInv'
  BY NextTInvKept DEF EInv
<1>2. ASSUME NEW e \in Executions, Submit(e) \/ \E a \in Approvals : SubmitCreate(e, a)
      PROVE  EInv' /\ [Effects!Next]_Effects!vars
  BY <1>1, <1>2, SubmitEInv, SubmitCreateEInv
<1>3. ASSUME NEW r \in Approvers, Proceed(r)
      PROVE  EInv' /\ [Effects!Next]_Effects!vars
  BY <1>1, <1>3, ApproveDecideEInv, ApproveRecordEInv, ResumeEInv, DispatchEInv, ReturnEInv,
     ReturnLoggedEInv, AnswerEInv DEF Proceed
<1>4. ASSUME NEW r \in Approvers,
             \/ \E a \in Approvals : ApproveBegin(r, a)
             \/ \E e \in Executions : Refresh(r, e)
      PROVE  EInv' /\ [Effects!Next]_Effects!vars
  BY <1>1, <1>4, ApproveBeginEInv, RefreshEInv
<1>5. CASE \/ \E t \in Rejecters : RejectRecord(t) \/ \E a \in Approvals : RejectDecide(t, a)
           \/ Elsewhere \/ Toggle \/ UNCHANGED vars
  BY <1>1, <1>5, AsideEInv
<1>6. CASE Crash
  BY <1>1, <1>6, CrashEInv
<1>. QED
  BY <1>2, <1>3, <1>4, <1>5, <1>6 DEF Next

(* An executor is started only for a command whose own approval was granted,
   and at most once, however requests, rejections, expiries, restarts and torn
   registry files fall: the write path implements GovernedEffects as long as
   the approval file can be read and written. *)
THEOREM GrantBeforeEffect ==
  ASSUME DiskMayFail = FALSE
  PROVE  Spec => OneEffectPerGrant
<1>1. EInv /\ [Next]_vars => EInv' /\ [Effects!Next]_Effects!vars
  BY NextEInv
<1>. QED
  BY <1>1, InitEInv, PTL DEF Spec, OneEffectPerGrant, Effects!Spec

=============================================================================
