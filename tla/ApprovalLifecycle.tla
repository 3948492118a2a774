-------------------------- MODULE ApprovalLifecycle --------------------------
(***************************************************************************)
(* What the approval store promises (class docstring of                    *)
(* services/approval_state_service.py): an approval is bound to its        *)
(* execution for good, its record changes only in its status, and the      *)
(* status moves once, from pending to a decision.  There is no disk, no    *)
(* clock and no restart here: a decision is never taken back.              *)
(***************************************************************************)
CONSTANTS Approvals,    \* approval ids
          Executions,   \* execution ids
          Payloads      \* a command together with its payload_key

VARIABLE records        \* approval id -> record

Decisions == {"approved", "rejected", "expired"}

Record == [status: {"pending"} \cup Decisions, exec: Executions, payload: Payloads]

NoRecord == [status |-> "absent"]

(* A record may appear as pending, or a pending one may be decided.  Expiry
   decides any number of records in the step that decides or creates another. *)
Move(old, new) ==
  \/ new = old
  \/ old = NoRecord /\ new \in Record /\ new.status = "pending"
  \/ /\ old \in Record /\ old.status = "pending"
     /\ \E d \in Decisions : new = [old EXCEPT !.status = d]

Init == records = [a \in Approvals |-> NoRecord]

Next == /\ records' \in [Approvals -> Record \cup {NoRecord}]
        /\ \A a \in Approvals : Move(records[a], records'[a])

Spec == Init /\ [][Next]_records
==============================================================================
