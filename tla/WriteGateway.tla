----------------------------- MODULE WriteGateway -----------------------------
(***************************************************************************)
(* The write gateway, services/write_gateway/write_gateway.py.  A write is *)
(* requested (request_write: policy, then a token) and committed           *)
(* (commit_write: token, approval, idempotency key, handler); write does   *)
(* one after the other.                                                    *)
(*                                                                         *)
(* Each is a coroutine whose locks are never held across a suspension, so  *)
(* that the only await that suspends is the handler's: a request is one    *)
(* action, a commit is one up to its handler and one from its end.         *)
(* Approvals are decided and expire meanwhile (ApprovalState).             *)
(***************************************************************************)
EXTENDS FiniteSets

CONSTANTS Approvals, Executions, Payloads, DiskMayFail,   \* see ApprovalState
          Requests,     \* requested writes, each with a token of its own
          Commits,      \* calls of commit_write
          Keys,         \* idempotency keys
          KeyOf,        \* request -> its key, given or derived
          ExecOf,       \* request -> its execution
          Permitted,    \* the requests whose actor and command the role policy permits
          Injected,     \* whether a policy_evaluator is injected
          MayCancel,    \* whether a commit may be cancelled in its handler
          NoApproval, NoRequest

ASSUME GatewayAssumption ==
  /\ DiskMayFail \in BOOLEAN /\ Injected \in BOOLEAN /\ MayCancel \in BOOLEAN
  /\ KeyOf \in [Requests -> Keys]
  /\ ExecOf \in [Requests -> Executions]
  /\ Permitted \subseteq Requests
  /\ NoApproval \notin Approvals
  /\ NoRequest \notin Requests

VARIABLES
  approvals, disk, aged, issued,   \* the approval store, see ApprovalState
  request,    \* request -> how it was answered, and its approval_id
  pending,    \* _pending: the requests whose token is not taken
  lapsed,     \* the requests whose token is older than its TTL
  record,     \* _idempotency: key -> its record and the request it came from
  commit      \* commit -> its coroutine and what it answered

Store == INSTANCE ApprovalState

storeVars == <<approvals, disk, aged, issued>>
tokenVars == <<pending, lapsed>>
vars == <<storeVars, request, tokenVars, record, commit>>

Request == [answer: {"none", "accepted", "requires_approval", "rejected", "failed"},
            approval: Approvals \cup {NoApproval}]
Keyed   == [status: {"none", "processing", "succeeded", "failed"},
            by: Requests \cup {NoRequest}]
Commit  == [pc: {"idle", "running", "cancelled", "done"},
            req: Requests \cup {NoRequest},
            answer: {"none", "invalid_token", "requires_approval", "rejected",
                     "replayed", "in_progress", "applied", "failed"},
            of: Requests \cup {NoRequest}]   \* the request whose result is answered

TypeOK == /\ Store!TypeOK
          /\ request \in [Requests -> Request]
          /\ pending \subseteq Requests
          /\ lapsed \subseteq Requests
          /\ record \in [Keys -> Keyed]
          /\ commit \in [Commits -> Commit]

Blank == [answer |-> "none", approval |-> NoApproval]
Idle  == [pc |-> "idle", req |-> NoRequest, answer |-> "none", of |-> NoRequest]

-----------------------------------------------------------------------------
(* _evaluate_policy: governance allows a permitted write whose approval is
   granted and blocks any other; what it blocks without an approval id is
   denied.  An injected evaluator may decide anything. *)
Decisions(q, a) ==
  IF Injected THEN {"allow", "requires_approval", "deny"}
    ELSE IF a = NoApproval THEN {"deny"}
    ELSE IF q \in Permitted /\ Store!FullyApproved(a) THEN {"allow"} ELSE {"requires_approval"}

Answered(q, answer, a) ==
  request' = [request EXCEPT ![q] = [answer |-> answer, approval |-> a]]

(* request_write: the envelope brings an approval id or none. *)
RequestAllowed(q, a) ==
  /\ request[q] = Blank
  /\ "allow" \in Decisions(q, a)
  /\ Store!Touch
  /\ Answered(q, "accepted", a)
  /\ pending' = pending \cup {q}
  /\ UNCHANGED <<lapsed, record, commit>>

(* A write that needs an approval and brings none gets one, unless the creation
   raises or returns none. *)
RequestBlocked(q, a) ==
  /\ request[q] = Blank
  /\ \/ /\ "deny" \in Decisions(q, a)
        /\ Answered(q, "rejected", a)
        /\ Store!Touch
     \/ /\ "requires_approval" \in Decisions(q, a)
        /\ a # NoApproval
        /\ Answered(q, "requires_approval", a)
        /\ Store!Touch
     \/ /\ "requires_approval" \in Decisions(q, a)
        /\ a = NoApproval
        /\ \E b \in Approvals, p \in Payloads :
             /\ Store!Create(ExecOf[q], p, b)
             /\ Answered(q, "requires_approval", b)
     \/ /\ "requires_approval" \in Decisions(q, a)
        /\ a = NoApproval
        /\ Answered(q, "failed", NoApproval)
        /\ Store!Touch \/ UNCHANGED storeVars
  /\ UNCHANGED <<tokenVars, record, commit>>

Lapse(q) ==
  /\ q \in pending \ lapsed
  /\ lapsed' = lapsed \cup {q}
  /\ UNCHANGED <<storeVars, request, pending, record, commit>>

-----------------------------------------------------------------------------
TokenValid(q) == q \in pending \ lapsed

Cleared(q) == request[q].approval # NoApproval => Store!FullyApproved(request[q].approval)

(* Takes the token and ends at once with `answer`, the result of `of`. *)
End(c, q, answer, of) ==
  /\ commit' = [commit EXCEPT ![c] = [pc |-> "done", req |-> q, answer |-> answer, of |-> of]]
  /\ UNCHANGED record

(* Fault: the token can be used again. *)
TakeByReading(c, q) ==
  /\ commit[c].pc = "idle" /\ request[q].answer = "accepted"
  /\ UNCHANGED <<request, tokenVars>>

(* A client commits a token it was given; _take_token pops it. *)
Take(c, q) ==
  /\ commit[c].pc = "idle" /\ request[q].answer = "accepted"
  /\ pending' = pending \ {q}
  /\ UNCHANGED <<request, lapsed>>

CommitInvalid(c, q) ==
  /\ Take(c, q)
  /\ ~TokenValid(q)
  /\ End(c, q, "invalid_token", q)
  /\ UNCHANGED storeVars

(* check_approval, by the id in the envelope. *)
CommitNotCleared(c, q) ==
  /\ Take(c, q)
  /\ TokenValid(q) /\ ~Cleared(q)
  /\ Store!Touch
  /\ End(c, q, IF Store!Current[request[q].approval].status = "pending"
                 THEN "requires_approval" ELSE "rejected", q)

Check(q) == IF request[q].approval = NoApproval THEN UNCHANGED storeVars ELSE Store!Touch

(* Fault: a replay answers with the result of the replayed request. *)
CommitReplayOwn(c, q) ==
  /\ Take(c, q)
  /\ TokenValid(q) /\ Cleared(q) /\ Check(q)
  /\ \/ /\ record[KeyOf[q]].status = "succeeded"
        /\ End(c, q, "replayed", q)
     \/ /\ record[KeyOf[q]].status = "processing"
        /\ End(c, q, "in_progress", q)

(* The key is taken: a succeeded write is replayed, one in progress answered
   as a failure. *)
CommitKeyTaken(c, q) ==
  /\ Take(c, q)
  /\ TokenValid(q) /\ Cleared(q) /\ Check(q)
  /\ \/ /\ record[KeyOf[q]].status = "succeeded"
        /\ End(c, q, "replayed", record[KeyOf[q]].by)
     \/ /\ record[KeyOf[q]].status = "processing"
        /\ End(c, q, "in_progress", q)

(* Fault: the approval is not looked at again when the token is committed. *)
CommitRunUnchecked(c, q) ==
  /\ Take(c, q)
  /\ TokenValid(q)
  /\ record[KeyOf[q]].status \in {"none", "failed"}
  /\ record' = [record EXCEPT ![KeyOf[q]] = [status |-> "processing", by |-> q]]
  /\ commit' = [commit EXCEPT ![c] = [Idle EXCEPT !.pc = "running", !.req = q]]
  /\ UNCHANGED storeVars

(* Fault: the key is not marked while the handler runs. *)
CommitRunUnmarked(c, q) ==
  /\ Take(c, q)
  /\ TokenValid(q) /\ Cleared(q) /\ Check(q)
  /\ record[KeyOf[q]].status \in {"none", "failed"}
  /\ commit' = [commit EXCEPT ![c] = [Idle EXCEPT !.pc = "running", !.req = q]]
  /\ UNCHANGED record

(* The key is free, or its last write failed: it is marked and the handler is
   awaited. *)
CommitRun(c, q) ==
  /\ Take(c, q)
  /\ TokenValid(q) /\ Cleared(q) /\ Check(q)
  /\ record[KeyOf[q]].status \in {"none", "failed"}
  /\ record' = [record EXCEPT ![KeyOf[q]] = [status |-> "processing", by |-> q]]
  /\ commit' = [commit EXCEPT ![c] = [Idle EXCEPT !.pc = "running", !.req = q]]

(* Fault: the record takes the word of the answer for its own. *)
ReturnAnswerWord(c, succeeded) ==
  LET q == commit[c].req
      word == IF succeeded THEN "applied" ELSE "failed"
  IN  /\ commit[c].pc = "running"
      /\ record' = [record EXCEPT ![KeyOf[q]] = [status |-> word, by |-> q]]
      /\ commit' = [commit EXCEPT ![c] = [pc |-> "done", req |-> q, answer |-> word, of |-> q]]
      /\ UNCHANGED <<storeVars, request, tokenVars>>

(* Fault: a handler's failure leaves the key marked. *)
ReturnSuccessOnly(c, succeeded) ==
  LET q == commit[c].req
  IN  /\ commit[c].pc = "running"
      /\ record' = IF succeeded THEN [record EXCEPT ![KeyOf[q]] = [status |-> "succeeded", by |-> q]]
                                ELSE record
      /\ commit' = [commit EXCEPT ![c] = [pc |-> "done", req |-> q, of |-> q,
                      answer |-> IF succeeded THEN "applied" ELSE "failed"]]
      /\ UNCHANGED <<storeVars, request, tokenVars>>

(* The handler returned or raised (a missing handler raises too), with or
   without an effect of its own. *)
Return(c, succeeded) ==
  LET q == commit[c].req
  IN  /\ commit[c].pc = "running"
      /\ record' = [record EXCEPT ![KeyOf[q]] =
            [status |-> IF succeeded THEN "succeeded" ELSE "failed", by |-> q]]
      /\ commit' = [commit EXCEPT ![c] = [pc |-> "done", req |-> q, of |-> q,
                      answer |-> IF succeeded THEN "applied" ELSE "failed"]]
      /\ UNCHANGED <<storeVars, request, tokenVars>>

(* The coroutine is cancelled while it awaits the handler: CancelledError is
   no Exception, so nothing is recorded. *)
Cancel(c) ==
  /\ MayCancel
  /\ commit[c].pc = "running"
  /\ commit' = [commit EXCEPT ![c].pc = "cancelled"]
  /\ UNCHANGED <<storeVars, request, tokenVars, record>>

(* Approvals are granted, refused and expire elsewhere. *)
Elsewhere ==
  /\ \E a \in Approvals :
       \/ Store!Approve(a) \/ Store!Reject(a) \/ Store!Age(a)
       \/ \E e \in Executions, p \in Payloads : Store!Create(e, p, a)
  /\ UNCHANGED <<request, tokenVars, record, commit>>

-----------------------------------------------------------------------------
Init == /\ Store!Init
        /\ request = [q \in Requests |-> Blank]
        /\ pending = {}
        /\ lapsed = {}
        /\ record = [k \in Keys |-> [status |-> "none", by |-> NoRequest]]
        /\ commit = [c \in Commits |-> Idle]

Next ==
  \/ \E q \in Requests :
       \/ Lapse(q)
       \/ \E a \in Approvals \cup {NoApproval} : RequestAllowed(q, a) \/ RequestBlocked(q, a)
  \/ \E c \in Commits :
       \/ \E q \in Requests : \/ CommitInvalid(c, q) \/ CommitNotCleared(c, q)
                              \/ CommitKeyTaken(c, q) \/ CommitRun(c, q)
       \/ \E succeeded \in BOOLEAN : Return(c, succeeded)
       \/ Cancel(c)
  \/ Elsewhere

Spec == Init /\ [][Next]_vars

(* Handlers end.  Nobody has to request or commit anything. *)
FairSpec == Spec /\ \A c \in Commits : WF_vars(\E succeeded \in BOOLEAN : Return(c, succeeded))

-----------------------------------------------------------------------------
Applied(c) == commit[c].answer = "applied"
Key(c)     == KeyOf[commit[c].req]

(* A key is written at most once, and by one handler at a time, whatever the
   requests under it and the cancellations of their commits. *)
OneWritePerKey ==
  \A c, d \in Commits :
    /\ Applied(c) \/ commit[c].pc = "running"
    /\ Applied(d) \/ commit[d].pc = "running"
    /\ Key(c) = Key(d)
    => c = d

(* What a replay answers is the result of the one write that was applied. *)
ReplaysTheWrite ==
  \A c \in Commits : commit[c].answer = "replayed" =>
    \E d \in Commits : Applied(d) /\ Key(d) = Key(c) /\ commit[d].req = commit[c].of

(* A token is worth one commit. *)
TokenSpentOnce ==
  \A c, d \in Commits :
    /\ commit[c].req = commit[d].req /\ commit[c].req # NoRequest
    /\ commit[c].answer # "invalid_token" /\ commit[d].answer # "invalid_token"
    => c = d

(* "approval state must be APPROVED before any side-effect dispatch"
   (commit_write), also if the policy issued the token before the decision. *)
RunsOnlyApproved ==
  \A c \in Commits :
    /\ commit[c].pc \in {"running", "cancelled"} \/ Applied(c)
    /\ request[commit[c].req].approval # NoApproval
    => approvals[request[commit[c].req].approval].status = "approved"

(* A key in progress is freed or settled once its handler ends, unless the
   commit that marked it is cancelled: then nothing settles it. *)
Abandoned(k) == \E c \in Commits : commit[c].pc = "cancelled" /\ Key(c) = k

KeysAreSettled ==
  \A k \in Keys : record[k].status = "processing"
                  ~> record[k].status # "processing" \/ Abandoned(k)

(* "requires_approval" is the answer when "governance trazi approval" (asks for
   one), "rejected" when it denies (WriteStatus): a write the role policy
   permits and that only lacks an approval is not answered as denied. *)
ApprovalIsAskedFor == \A q \in Permitted : request[q].answer # "rejected"
==============================================================================
