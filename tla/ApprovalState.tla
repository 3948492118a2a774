---------------------------- MODULE ApprovalState ----------------------------
(***************************************************************************)
(* The approval store, services/approval_state_service.py: one dict of     *)
(* approvals shared by every caller under one lock, written through to a   *)
(* JSON file.  Each operation runs under the lock from its first line to   *)
(* its last, so each is one action; each first expires every pending       *)
(* approval whose TTL has run out.                                         *)
(*                                                                         *)
(* The file is replaced atomically (tmp, fsync, rename), so a crash inside *)
(* an operation leaves the file of before or after it.  A write that fails *)
(* is only logged: memory keeps the change and the file stays behind.  A   *)
(* file that cannot be read is only logged too: the process starts empty,  *)
(* and its next write replaces the file.                                   *)
(***************************************************************************)
EXTENDS FiniteSets

CONSTANTS Approvals,     \* approval ids (uuid4): the bound on how many are created
          Executions,    \* execution ids
          Payloads,      \* a command together with its payload_key
          DiskMayFail    \* whether reading or writing the file may fail

ASSUME DiskAssumption == DiskMayFail \in BOOLEAN

VARIABLES approvals,     \* _GLOBAL_APPROVALS
          disk,          \* approval_state.json
          aged,          \* ids whose created_at is older than now - TTL
          issued         \* ids uuid4 has returned: it repeats none

storeVars == <<approvals, disk, aged, issued>>

Record == [status: {"pending", "approved", "rejected", "expired"},
           exec: Executions, payload: Payloads]

NoRecord == [status |-> "absent"]

Store == [Approvals -> Record \cup {NoRecord}]

Empty == [a \in Approvals |-> NoRecord]

TypeOK == /\ approvals \in Store
          /\ disk \in Store
          /\ aged \subseteq issued
          /\ issued \subseteq Approvals

-----------------------------------------------------------------------------
(* Fault: the age of a pending approval is not looked at. *)
ExpireAllPending(A) ==
  [a \in Approvals |-> IF A[a].status = "pending"
                         THEN [A[a] EXCEPT !.status = "expired"] ELSE A[a]]

(* _expire_stale_pending_locked: the store once every stale pending approval
   has become expired. *)
Expired(A) ==
  [a \in Approvals |-> IF A[a].status = "pending" /\ a \in aged
                         THEN [A[a] EXCEPT !.status = "expired"]
                         ELSE A[a]]

Current == Expired(approvals)

(* _persist_to_disk_locked, called only after a change: what the file may hold
   when `file` was in it and memory went from `old` to `new`. *)
Written(file, old, new) ==
  IF new = old THEN {file} ELSE {new} \cup (IF DiskMayFail THEN {file} ELSE {})

(* Every operation: expire (and persist if that changed anything), then change
   the store to `new` (and persist if that changed anything). *)
Commit(new) ==
  /\ approvals' = new
  /\ \E file \in Written(disk, approvals, Current) : disk' \in Written(file, Current, new)

-----------------------------------------------------------------------------
(* get, list_approvals, list_pending, is_fully_approved: they change the store
   by expiring what is stale. *)
Touch == Commit(Current) /\ UNCHANGED <<aged, issued>>

FullyApproved(a) == Current[a].status = "approved"

(* Fault: only a pending approval is taken for a repetition. *)
MatchingPending(A, e, p) ==
  {a \in Approvals : A[a].status = "pending" /\ A[a].exec = e /\ A[a].payload = p}

(* The approvals create takes for the same request: the dict may hold several
   of the same execution and payload_key, of which the live ones count. *)
Matching(A, e, p) ==
  {a \in Approvals : A[a].status \in {"pending", "approved"} /\ A[a].exec = e /\ A[a].payload = p}

(* create: a live approval of the same request is returned, otherwise a fresh
   pending one; `a` is the id returned. *)
Create(e, p, a) ==
  \/ a \in Matching(Current, e, p) /\ Touch
  \/ /\ Matching(Current, e, p) = {}
     /\ a \in Approvals \ issued
     /\ issued' = issued \cup {a}
     /\ Commit([Current EXCEPT ![a] = [status |-> "pending", exec |-> e, payload |-> p]])
     /\ UNCHANGED aged

(* Fault: decides on the status read before the stale approvals are expired. *)
ApproveWithoutExpiry(a) ==
  /\ Commit(IF approvals[a].status = "pending"
              THEN [Current EXCEPT ![a] = [approvals[a] EXCEPT !.status = "approved"]]
              ELSE Current)
  /\ UNCHANGED <<aged, issued>>

(* Fault: an expired approval can still be approved. *)
ApproveExpired(a) ==
  /\ Commit(IF Current[a].status \in {"pending", "expired"}
              THEN [Current EXCEPT ![a].status = "approved"] ELSE Current)
  /\ UNCHANGED <<aged, issued>>

(* Fault: approving writes a status the store does not know. *)
ApproveAsCompleted(a) ==
  /\ Commit(IF Current[a].status = "pending"
              THEN [Current EXCEPT ![a].status = "completed"] ELSE Current)
  /\ UNCHANGED <<aged, issued>>

(* approve: KeyError on an unknown id and ValueError on an expired one change
   nothing more; a decided approval is returned as it is. *)
Approve(a) ==
  /\ Commit(IF Current[a].status = "pending"
              THEN [Current EXCEPT ![a].status = "approved"] ELSE Current)
  /\ UNCHANGED <<aged, issued>>

(* Fault: reject overrides a decision. *)
RejectDecided(a) ==
  /\ Commit(IF Current[a] # NoRecord
              THEN [Current EXCEPT ![a].status = "rejected"] ELSE Current)
  /\ UNCHANGED <<aged, issued>>

(* reject: the same, and an expired approval is returned as it is. *)
Reject(a) ==
  /\ Commit(IF Current[a].status = "pending"
              THEN [Current EXCEPT ![a].status = "rejected"] ELSE Current)
  /\ UNCHANGED <<aged, issued>>

(* The clock passes created_at + TTL of an approval that is still pending
   somewhere.  With a TTL of zero this never happens. *)
Age(a) ==
  /\ a \in issued \ aged
  /\ "pending" \in {approvals[a].status, disk[a].status}
  /\ aged' = aged \cup {a}
  /\ UNCHANGED <<approvals, disk, issued>>

(* Fault: a record is loaded as pending, whatever status the file has for it. *)
RestartUndecided ==
  LET loaded == [a \in Approvals |-> IF disk[a] = NoRecord THEN NoRecord
                                       ELSE [disk[a] EXCEPT !.status = "pending"]]
  IN  /\ approvals' = Expired(loaded)
      /\ disk' \in Written(disk, loaded, Expired(loaded))
      /\ UNCHANGED <<aged, issued>>

(* The process stops and a new one imports the module: __init__ loads the file,
   or fails to, into an empty dict and expires what is stale. *)
Restart ==
  \E loaded \in {disk} \cup (IF DiskMayFail THEN {Empty} ELSE {}) :
    /\ approvals' = Expired(loaded)
    /\ disk' \in Written(disk, loaded, Expired(loaded))
    /\ UNCHANGED <<aged, issued>>

-----------------------------------------------------------------------------
Init == /\ approvals = Empty
        /\ disk = approvals
        /\ aged = {}
        /\ issued = {}

Next == \/ Touch
        \/ \E a \in Approvals :
             \/ \E e \in Executions, p \in Payloads : Create(e, p, a)
             \/ Approve(a)
             \/ Reject(a)
             \/ Age(a)
        \/ Restart

Spec == Init /\ [][Next]_storeVars

-----------------------------------------------------------------------------
(* A request has at most one live approval: create's deduplication holds
   whatever mix of decisions, expiries and restarts came before, also in the
   file a restart will read. *)
Live(A, a) == A[a].status \in {"pending", "approved"}

OneLive(A) ==
  \A a, b \in Approvals :
    /\ Live(A, a) /\ Live(A, b)
    /\ A[a].exec = A[b].exec /\ A[a].payload = A[b].payload
    => a = b

OneLivePerRequest == OneLive(approvals) /\ OneLive(disk)

(* The file is never ahead of memory: a record in it is the record in memory or
   that record before its decision, unless memory was started without it.  This
   is what makes a restart safe when writes fail. *)
Behind(file, mem) ==
  \/ file = NoRecord
  \/ file = mem
  \/ /\ file.status = "pending"
     /\ mem = [file EXCEPT !.status = mem.status]

DiskBehind ==
  \A a \in Approvals : approvals[a] = NoRecord \/ Behind(disk[a], approvals[a])

(* An approval is expired, in memory or in the file, only after its TTL ran
   out. *)
ExpiredIsAged ==
  \A a \in Approvals : "expired" \in {approvals[a].status, disk[a].status} => a \in aged

(* "expired approvals are terminal" (class docstring): an expired approval is
   never pending or decided otherwise again.  It holds across restarts even
   when every write fails, because the reload expires again what it finds
   stale; at worst the record is gone. *)
ExpiredIsTerminal ==
  [][\A a \in Approvals : approvals[a].status = "expired"
                            => approvals'[a].status \in {"expired", "absent"}]_storeVars

(* approve grants nothing once the TTL has run out, however the caller's own
   look at the approval and the grant are spaced. *)
NoStaleGrant ==
  [][\A a \in aged : approvals[a].status = "pending" => approvals'[a].status # "approved"]_storeVars

(* While writes succeed the store implements the lifecycle its docstring
   promises: decisions survive restarts and nothing else in a record changes. *)
Lifecycle == INSTANCE ApprovalLifecycle WITH records <- approvals
KeepsLifecycle == Lifecycle!Spec
==============================================================================
