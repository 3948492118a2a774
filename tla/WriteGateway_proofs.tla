------------------------ MODULE WriteGateway_proofs ------------------------
(***************************************************************************)
(* Theorems about WriteGateway for any requests, commits and keys, any     *)
(* policy, and commits that may be cancelled.                              *)
(*                                                                         *)
(* None of the properties is inductive alone: they hold because the record *)
(* of a key and the coroutines that use it agree (HandlerHoldsKey,         *)
(* WriteIsSettled, SettledByWrite), because a coroutine answers only when  *)
(* it ends (AnswersAtEnd), and because the token of a request that was     *)
(* committed is gone for good (TokenIsGone).                               *)
(***************************************************************************)
EXTENDS WriteGateway, TLAPS

(* A coroutine has an answer when it has ended, and a request since it began. *)
AnswersAtEnd ==
  \A c \in Commits : /\ commit[c].answer # "none" => commit[c].pc = "done"
                     /\ commit[c].pc # "idle" => commit[c].req \in Requests
                     /\ commit[c].pc = "idle" => commit[c].req = NoRequest

TokenIsGone ==
  \A c \in Commits : commit[c].pc # "idle" =>
    commit[c].req \notin pending /\ request[commit[c].req].answer = "accepted"

HandlerHoldsKey ==
  \A c \in Commits : commit[c].pc = "running" =>
    record[Key(c)] = [status |-> "processing", by |-> commit[c].req]

WriteIsSettled ==
  \A c \in Commits : Applied(c) =>
    record[Key(c)] = [status |-> "succeeded", by |-> commit[c].req]

SettledByWrite ==
  \A k \in Keys : record[k].status = "succeeded" =>
    \E d \in Commits : Applied(d) /\ Key(d) = k /\ commit[d].req = record[k].by

(* uuid4 gives no id twice: what it has not returned names no record. *)
OnlyIssued == \A a \in Approvals \ issued : approvals[a] = Store!NoRecord

IInv == /\ TypeOK /\ OnlyIssued /\ AnswersAtEnd /\ TokenIsGone
        /\ HandlerHoldsKey /\ WriteIsSettled /\ SettledByWrite
        /\ OneWritePerKey /\ ReplaysTheWrite /\ TokenSpentOnce /\ RunsOnlyApproved

-----------------------------------------------------------------------------
(* What the approval store does to the gateway: it stays a store, and a granted
   approval stays granted. *)
StoreStep ==
  /\ Store!TypeOK' /\ OnlyIssued'
  /\ \A a \in Approvals : approvals[a].status = "approved" => approvals'[a].status = "approved"

(* Expiry gives a store and touches neither a granted approval nor an absent
   one. *)
LEMMA CurrentIsStore ==
  ASSUME Store!TypeOK
  PROVE  /\ Store!Current \in Store!Store
         /\ \A a \in Approvals : approvals[a].status = "approved" \/ approvals[a] = Store!NoRecord
                                   => Store!Current[a] = approvals[a]
  BY DEF Store!TypeOK, Store!Current, Store!Expired, Store!Store, Store!Record, Store!NoRecord

(* Committing a store that keeps the grants and the ids. *)
LEMMA CommitStep ==
  ASSUME Store!TypeOK, NEW new \in Store!Store, Store!Commit(new),
         aged' \subseteq issued', issued' \subseteq Approvals,
         \A a \in Approvals \ issued' : new[a] = Store!NoRecord,
         \A a \in Approvals : approvals[a].status = "approved" => new[a].status = "approved"
  PROVE  StoreStep /\ approvals' = new
<1>1. approvals' = new
  BY DEF Store!Commit
<1>2. disk' \in Store!Store
  BY CurrentIsStore DEF Store!TypeOK, Store!Commit, Store!Written
<1>. QED
  BY <1>1, <1>2 DEF StoreStep, OnlyIssued, Store!TypeOK

(* Reading the store. *)
LEMMA TouchStep ==
  ASSUME Store!TypeOK, OnlyIssued, Store!Touch
  PROVE  StoreStep /\ approvals' = Store!Current
<1>1. \A a \in Approvals \ issued : Store!Current[a] = Store!NoRecord
  BY CurrentIsStore DEF OnlyIssued
<1>. QED
  BY <1>1, CurrentIsStore, CommitStep DEF Store!Touch, Store!TypeOK

(* Creating an approval: a known one is returned, or an id not yet issued gets
   a record. *)
LEMMA CreateStep ==
  ASSUME Store!TypeOK, OnlyIssued,
         NEW e \in Executions, NEW p \in Payloads, NEW a \in Approvals, Store!Create(e, p, a)
  PROVE  StoreStep
<1>1. CASE Store!Touch
  BY <1>1, TouchStep
<1>2. CASE /\ a \in Approvals \ issued
           /\ issued' = issued \cup {a}
           /\ Store!Commit([Store!Current EXCEPT ![a] =
                             [status |-> "pending", exec |-> e, payload |-> p]])
           /\ UNCHANGED aged
  <2>. DEFINE new == [Store!Current EXCEPT ![a] =
                        [status |-> "pending", exec |-> e, payload |-> p]]
  <2>1. new \in Store!Store
    BY CurrentIsStore DEF Store!Store, Store!Record
  <2>2. \A b \in Approvals \ issued' : new[b] = Store!NoRecord
    BY <1>2, CurrentIsStore DEF OnlyIssued, Store!Store
  <2>3. ASSUME NEW b \in Approvals, approvals[b].status = "approved"
        PROVE  new[b].status = "approved"
    <3>1. b # a
      BY <1>2, <2>3 DEF OnlyIssued, Store!NoRecord
    <3>. QED
      BY <2>3, <3>1, CurrentIsStore DEF Store!Store
  <2>. QED
    BY <1>2, <2>1, <2>2, <2>3, CommitStep DEF Store!TypeOK
<1>. QED
  BY <1>1, <1>2 DEF Store!Create

(* Deciding a pending approval. *)
LEMMA DecideStep ==
  ASSUME Store!TypeOK, OnlyIssued, NEW a \in Approvals, NEW decision \in {"approved", "rejected"},
         Store!Commit(IF Store!Current[a].status = "pending"
                        THEN [Store!Current EXCEPT ![a].status = decision] ELSE Store!Current),
         UNCHANGED <<aged, issued>>
  PROVE  StoreStep
<1>. DEFINE new == IF Store!Current[a].status = "pending"
                     THEN [Store!Current EXCEPT ![a].status = decision] ELSE Store!Current
<1>1. new \in Store!Store
  BY CurrentIsStore DEF Store!Store, Store!Record, Store!NoRecord
<1>2. \A b \in Approvals \ issued' : new[b] = Store!NoRecord
  BY CurrentIsStore DEF OnlyIssued, Store!Store, Store!NoRecord
<1>3. \A b \in Approvals : approvals[b].status = "approved" => new[b].status = "approved"
  BY CurrentIsStore DEF Store!Store
<1>. QED
  BY <1>1, <1>2, <1>3, CommitStep DEF Store!TypeOK

(* Time passes for an approval. *)
LEMMA AgeStep ==
  ASSUME Store!TypeOK, OnlyIssued, NEW a \in Approvals, Store!Age(a)
  PROVE  StoreStep
  BY DEF Store!TypeOK, OnlyIssued, Store!Age, StoreStep

-----------------------------------------------------------------------------
(* A step of the store alone, or no step at all. *)
LEMMA StoreOnlyIInv ==
  ASSUME IInv, StoreStep, UNCHANGED <<request, tokenVars, record, commit>>
  PROVE  IInv'
<1>1. TypeOK' /\ OnlyIssued'
  BY DEF IInv, TypeOK, StoreStep, tokenVars
<1>2. AnswersAtEnd' /\ TokenIsGone' /\ HandlerHoldsKey' /\ WriteIsSettled' /\ SettledByWrite'
  BY DEF IInv, tokenVars, AnswersAtEnd, TokenIsGone, HandlerHoldsKey, WriteIsSettled,
         SettledByWrite, Applied, Key
<1>3. OneWritePerKey' /\ ReplaysTheWrite' /\ TokenSpentOnce'
  BY DEF IInv, OneWritePerKey, ReplaysTheWrite, TokenSpentOnce, Applied, Key
<1>4. RunsOnlyApproved'
  BY DEF IInv, TypeOK, Request, AnswersAtEnd, RunsOnlyApproved, StoreStep, Applied
<1>. QED
  BY <1>1, <1>2, <1>3, <1>4 DEF IInv

(* A request is answered: no commit has its token yet. *)
LEMMA AnsweredIInv ==
  ASSUME IInv, StoreStep, NEW q \in Requests, request[q] = Blank,
         NEW answer \in {"accepted", "requires_approval", "rejected", "failed"},
         NEW a \in Approvals \cup {NoApproval}, Answered(q, answer, a),
         pending' \in {pending, pending \cup {q}}, UNCHANGED <<lapsed, record, commit>>
  PROVE  IInv'
<1>1. TypeOK' /\ OnlyIssued'
  BY DEF IInv, TypeOK, StoreStep, Answered, Request
<1>2. \A c \in Commits : commit[c].pc # "idle" => commit[c].req # q
  BY DEF IInv, TokenIsGone, Blank
<1>3. \A c \in Commits : commit[c].pc # "idle" =>
        request'[commit[c].req] = request[commit[c].req]
  BY <1>2 DEF IInv, TypeOK, AnswersAtEnd, Answered
<1>4. TokenIsGone'
  BY <1>2, <1>3 DEF IInv, TokenIsGone
<1>5. AnswersAtEnd' /\ HandlerHoldsKey' /\ WriteIsSettled' /\ SettledByWrite'
  BY DEF IInv, AnswersAtEnd, HandlerHoldsKey, WriteIsSettled, SettledByWrite, Applied, Key
<1>6. OneWritePerKey' /\ ReplaysTheWrite' /\ TokenSpentOnce'
  BY DEF IInv, OneWritePerKey, ReplaysTheWrite, TokenSpentOnce, Applied, Key
<1>7. RunsOnlyApproved'
  <2>. SUFFICES ASSUME NEW c \in Commits,
                       commit[c].pc \in {"running", "cancelled"} \/ commit[c].answer = "applied",
                       request'[commit[c].req].approval # NoApproval
                PROVE  approvals'[request'[commit[c].req].approval].status = "approved"
    BY DEF RunsOnlyApproved, Applied
  <2>1. commit[c].pc # "idle" /\ commit[c].req \in Requests
    BY DEF IInv, AnswersAtEnd
  <2>2. request'[commit[c].req] = request[commit[c].req]
    BY <1>3, <2>1
  <2>3. approvals[request[commit[c].req].approval].status = "approved"
    BY <2>2 DEF IInv, RunsOnlyApproved, Applied
  <2>. QED
    BY <2>1, <2>2, <2>3 DEF IInv, TypeOK, Request, StoreStep
<1>. QED
  BY <1>1, <1>4, <1>5, <1>6, <1>7 DEF IInv

(* The TTL of a token passes. *)
LEMMA LapseIInv ==
  ASSUME IInv, NEW q \in Requests, Lapse(q)
  PROVE  IInv'
<1>1. TypeOK' /\ OnlyIssued'
  BY DEF IInv, TypeOK, OnlyIssued, Lapse, storeVars, Store!TypeOK
<1>2. AnswersAtEnd' /\ TokenIsGone' /\ HandlerHoldsKey' /\ WriteIsSettled' /\ SettledByWrite'
  BY DEF IInv, Lapse, AnswersAtEnd, TokenIsGone, HandlerHoldsKey, WriteIsSettled,
         SettledByWrite, Applied, Key
<1>3. OneWritePerKey' /\ ReplaysTheWrite' /\ TokenSpentOnce' /\ RunsOnlyApproved'
  BY DEF IInv, Lapse, storeVars, OneWritePerKey, ReplaysTheWrite, TokenSpentOnce,
         RunsOnlyApproved, Applied, Key
<1>. QED
  BY <1>1, <1>2, <1>3 DEF IInv

-----------------------------------------------------------------------------
(* Nobody else has the token a commit takes while it is valid. *)
LEMMA TokenIsOnlyOurs ==
  ASSUME IInv, NEW c \in Commits, NEW q \in Requests, Take(c, q)
  PROVE  /\ request' = request /\ pending' = pending \ {q} /\ lapsed' = lapsed
         /\ request[q].answer = "accepted"
         /\ commit[c].pc = "idle" /\ commit[c].req = NoRequest /\ commit[c].answer = "none"
         /\ q \in pending => \A d \in Commits : commit[d].req # q
  BY GatewayAssumption DEF IInv, TypeOK, Commit, Take, AnswersAtEnd, TokenIsGone

(* A commit that ends at once: it writes nothing, and replays only a write. *)
LEMMA EndIInv ==
  ASSUME IInv, StoreStep, NEW c \in Commits, NEW q \in Requests, Take(c, q),
         NEW answer \in {"invalid_token", "requires_approval", "rejected", "replayed",
                         "in_progress"},
         NEW of \in Requests \cup {NoRequest}, End(c, q, answer, of),
         answer # "invalid_token" => q \in pending,
         answer = "replayed" => /\ record[KeyOf[q]].status = "succeeded"
                                /\ of = record[KeyOf[q]].by
  PROVE  IInv'
<1>. DEFINE ended == [pc |-> "done", req |-> q, answer |-> answer, of |-> of]
<1>1. /\ record' = record
      /\ commit' = [commit EXCEPT ![c] = ended]
      /\ commit'[c] = ended
      /\ \A d \in Commits \ {c} : commit'[d] = commit[d]
  BY DEF IInv, TypeOK, End
<1>2. TypeOK' /\ OnlyIssued'
  BY <1>1, TokenIsOnlyOurs DEF IInv, TypeOK, StoreStep, Commit
<1>3. AnswersAtEnd' /\ TokenIsGone'
  BY <1>1, TokenIsOnlyOurs DEF IInv, AnswersAtEnd, TokenIsGone
<1>4. \A d \in Commits : /\ commit'[d].pc = "running" => d # c
                         /\ commit'[d].answer = "applied" => d # c
                         /\ commit'[d].pc = "cancelled" => d # c
  BY <1>1
<1>5. \A d \in Commits : commit[d].answer = "applied" => d # c
  BY TokenIsOnlyOurs
<1>6. HandlerHoldsKey' /\ WriteIsSettled'
  BY <1>1, <1>4 DEF IInv, HandlerHoldsKey, WriteIsSettled, Applied, Key
<1>7. SettledByWrite'
  BY <1>1, <1>5 DEF IInv, SettledByWrite, Applied, Key
<1>8. OneWritePerKey'
  BY <1>1, <1>4 DEF IInv, OneWritePerKey, Applied, Key
<1>9. ReplaysTheWrite'
  <2>1. ASSUME answer = "replayed"
        PROVE  \E d \in Commits : Applied(d) /\ Key(d) = KeyOf[q] /\ commit[d].req = of
    BY <2>1, GatewayAssumption DEF IInv, SettledByWrite
  <2>. QED
    BY <1>1, <1>5, <2>1 DEF IInv, ReplaysTheWrite, Applied, Key
<1>10. TokenSpentOnce'
  BY <1>1, TokenIsOnlyOurs DEF IInv, TokenSpentOnce
<1>11. RunsOnlyApproved'
  BY <1>1, <1>4, TokenIsOnlyOurs
     DEF IInv, TypeOK, Request, AnswersAtEnd, RunsOnlyApproved, StoreStep, Applied
<1>. QED
  BY <1>2, <1>3, <1>6, <1>7, <1>8, <1>9, <1>10, <1>11 DEF IInv

(* A key that is free or whose write failed is nobody's. *)
LEMMA KeyIsFree ==
  ASSUME IInv, NEW q \in Requests, record[KeyOf[q]].status \in {"none", "failed"},
         NEW d \in Commits, commit[d].pc = "running" \/ Applied(d)
  PROVE  Key(d) # KeyOf[q]
<1>1. CASE commit[d].pc = "running"
  <2>1. record[Key(d)] = [status |-> "processing", by |-> commit[d].req]
    BY <1>1 DEF IInv, HandlerHoldsKey
  <2>2. record[Key(d)].status = "processing"
    BY <2>1
  <2>. QED
    BY <2>2
<1>2. CASE Applied(d)
  <2>1. record[Key(d)] = [status |-> "succeeded", by |-> commit[d].req]
    BY <1>2 DEF IInv, WriteIsSettled
  <2>2. record[Key(d)].status = "succeeded"
    BY <2>1
  <2>. QED
    BY <2>2
<1>. QED
  BY <1>1, <1>2

(* A commit whose handler starts: no other commit writes the key or has. *)
LEMMA RunIInv ==
  ASSUME IInv, StoreStep, NEW c \in Commits, NEW q \in Requests, CommitRun(c, q),
         request[q].approval # NoApproval =>
           approvals'[request[q].approval].status = "approved"
  PROVE  IInv'
<1>. DEFINE started == [Idle EXCEPT !.pc = "running", !.req = q]
            mark == [status |-> "processing", by |-> q]
<1>1. /\ Take(c, q) /\ q \in pending
      /\ record[KeyOf[q]].status \in {"none", "failed"}
      /\ record' = [record EXCEPT ![KeyOf[q]] = mark]
      /\ commit' = [commit EXCEPT ![c] = started]
  BY DEF CommitRun, TokenValid
<1>2. /\ commit'[c].answer = "none" /\ commit'[c].pc = "running" /\ commit'[c].req = q
      /\ \A d \in Commits \ {c} : commit'[d] = commit[d]
      /\ KeyOf[q] \in Keys /\ record'[KeyOf[q]] = mark
      /\ \A k \in Keys \ {KeyOf[q]} : record'[k] = record[k]
  BY <1>1, GatewayAssumption DEF IInv, TypeOK, Idle
<1>3. \A d \in Commits : commit[d].pc = "running" \/ Applied(d) => d # c /\ Key(d) # KeyOf[q]
  BY <1>1, TokenIsOnlyOurs, KeyIsFree DEF Applied
<1>4. TypeOK' /\ OnlyIssued'
  <2>1. started \in Commit /\ mark \in Keyed
    BY DEF Idle, Commit, Keyed
  <2>2. request' \in [Requests -> Request] /\ pending' \subseteq Requests /\ lapsed' \subseteq Requests
    BY <1>1, TokenIsOnlyOurs DEF IInv, TypeOK
  <2>. QED
    BY <1>1, <2>1, <2>2 DEF IInv, TypeOK, StoreStep
<1>5. AnswersAtEnd' /\ TokenIsGone'
  BY <1>1, <1>2, TokenIsOnlyOurs DEF IInv, AnswersAtEnd, TokenIsGone
<1>6. \A d \in Commits \ {c} : commit[d].pc # "idle" => Key(d) \in Keys
  BY GatewayAssumption DEF IInv, AnswersAtEnd, Key
<1>7. HandlerHoldsKey' /\ WriteIsSettled'
  <2>1. ASSUME NEW d \in Commits, commit'[d].pc = "running"
        PROVE  record'[KeyOf[commit'[d].req]] = [status |-> "processing", by |-> commit'[d].req]
    <3>1. CASE d = c
      BY <1>2, <3>1
    <3>2. CASE d # c
      BY <1>2, <1>3, <1>6, <2>1, <3>2 DEF IInv, HandlerHoldsKey, Key
    <3>. QED
      BY <3>1, <3>2
  <2>2. ASSUME NEW d \in Commits, commit'[d].answer = "applied"
        PROVE  record'[KeyOf[commit'[d].req]] = [status |-> "succeeded", by |-> commit'[d].req]
    BY <1>2, <1>3, <1>6, <2>2 DEF IInv, AnswersAtEnd, WriteIsSettled, Applied, Key
  <2>. QED
    BY <2>1, <2>2 DEF HandlerHoldsKey, WriteIsSettled, Applied, Key
<1>8. SettledByWrite'
  <2>. SUFFICES ASSUME NEW k \in Keys, record'[k].status = "succeeded"
                PROVE  \E d \in Commits : /\ commit'[d].answer = "applied"
                                          /\ KeyOf[commit'[d].req] = k
                                          /\ commit'[d].req = record'[k].by
    BY DEF SettledByWrite, Applied, Key
  <2>1. k # KeyOf[q] /\ record'[k] = record[k]
    BY <1>2
  <2>2. PICK d \in Commits : Applied(d) /\ Key(d) = k /\ commit[d].req = record[k].by
    BY <2>1 DEF IInv, SettledByWrite
  <2>. QED
    BY <1>2, <1>3, <2>1, <2>2 DEF Applied, Key
<1>9. OneWritePerKey'
  BY <1>2, <1>3 DEF IInv, OneWritePerKey, Applied, Key
<1>10. ReplaysTheWrite'
  BY <1>2, <1>3 DEF IInv, ReplaysTheWrite, Applied, Key
<1>11. TokenSpentOnce'
  BY <1>1, <1>2, TokenIsOnlyOurs DEF IInv, TokenSpentOnce
<1>12. RunsOnlyApproved'
  BY <1>1, <1>2, TokenIsOnlyOurs
     DEF IInv, TypeOK, Request, AnswersAtEnd, RunsOnlyApproved, StoreStep, Applied
<1>. QED
  BY <1>4, <1>5, <1>7, <1>8, <1>9, <1>10, <1>11, <1>12 DEF IInv

(* A handler's end: its key is settled by the only commit that holds it. *)
LEMMA ReturnIInv ==
  ASSUME IInv, NEW c \in Commits, NEW succeeded \in BOOLEAN, Return(c, succeeded)
  PROVE  IInv'
<1>. DEFINE q == commit[c].req
            outcome == IF succeeded THEN "succeeded" ELSE "failed"
            answer == IF succeeded THEN "applied" ELSE "failed"
            ended == [pc |-> "done", req |-> q, answer |-> answer, of |-> q]
<1>1. /\ commit[c].pc = "running" /\ q \in Requests
      /\ record' = [record EXCEPT ![KeyOf[q]] = [status |-> outcome, by |-> q]]
      /\ commit' = [commit EXCEPT ![c] = ended]
      /\ UNCHANGED <<storeVars, request, tokenVars>>
  BY DEF IInv, AnswersAtEnd, Return
<1>2. /\ commit'[c] = ended
      /\ \A d \in Commits \ {c} : commit'[d] = commit[d]
      /\ KeyOf[q] \in Keys /\ record'[KeyOf[q]] = [status |-> outcome, by |-> q]
      /\ \A k \in Keys \ {KeyOf[q]} : record'[k] = record[k]
  BY <1>1, GatewayAssumption DEF IInv, TypeOK
<1>3. \A d \in Commits \ {c} : commit[d].pc = "running" \/ Applied(d) => Key(d) # KeyOf[q]
  BY <1>1 DEF IInv, OneWritePerKey, Key
<1>4. TypeOK' /\ OnlyIssued'
  <2>1. ended \in Commit /\ [status |-> outcome, by |-> q] \in Keyed
    BY <1>1 DEF Commit, Keyed
  <2>. QED
    BY <1>1, <2>1 DEF IInv, TypeOK, OnlyIssued, storeVars, tokenVars, Store!TypeOK
<1>5. AnswersAtEnd' /\ TokenIsGone'
  BY <1>1, <1>2 DEF IInv, AnswersAtEnd, TokenIsGone, tokenVars
<1>6. \A d \in Commits \ {c} : commit[d].pc # "idle" => Key(d) \in Keys
  BY GatewayAssumption DEF IInv, AnswersAtEnd, Key
<1>7. HandlerHoldsKey'
  BY <1>2, <1>3, <1>6 DEF IInv, HandlerHoldsKey, Key
<1>8. WriteIsSettled'
  <2>. SUFFICES ASSUME NEW d \in Commits, commit'[d].answer = "applied"
                PROVE  record'[KeyOf[commit'[d].req]]
                         = [status |-> "succeeded", by |-> commit'[d].req]
    BY DEF WriteIsSettled, Applied, Key
  <2>1. CASE d = c
    BY <1>2, <2>1
  <2>2. CASE d # c
    BY <1>2, <1>3, <1>6, <2>2 DEF IInv, AnswersAtEnd, WriteIsSettled, Applied, Key
  <2>. QED
    BY <2>1, <2>2
<1>9. SettledByWrite'
  <2>. SUFFICES ASSUME NEW k \in Keys, record'[k].status = "succeeded"
                PROVE  \E d \in Commits : /\ commit'[d].answer = "applied"
                                          /\ KeyOf[commit'[d].req] = k
                                          /\ commit'[d].req = record'[k].by
    BY DEF SettledByWrite, Applied, Key
  <2>1. CASE k = KeyOf[q]
    BY <1>2, <2>1
  <2>2. CASE k # KeyOf[q]
    <3>1. PICK d \in Commits : Applied(d) /\ Key(d) = k /\ commit[d].req = record[k].by
      BY <1>2, <2>2 DEF IInv, SettledByWrite
    <3>2. d # c
      BY <1>1, <3>1 DEF IInv, AnswersAtEnd, Applied
    <3>. QED
      BY <1>2, <2>2, <3>1, <3>2 DEF Applied, Key
  <2>. QED
    BY <2>1, <2>2
<1>10. OneWritePerKey'
  BY <1>2, <1>3 DEF IInv, OneWritePerKey, Applied, Key
<1>11. ReplaysTheWrite'
  <2>1. \A d \in Commits : commit[d].answer # "none" => d # c
    BY <1>1 DEF IInv, AnswersAtEnd
  <2>. QED
    BY <1>2, <2>1 DEF IInv, ReplaysTheWrite, Applied, Key
<1>12. TokenSpentOnce'
  <2>1. commit[c].answer # "invalid_token" /\ ended.req = commit[c].req
    BY <1>1 DEF IInv, AnswersAtEnd
  <2>. QED
    BY <1>2, <2>1 DEF IInv, TokenSpentOnce
<1>13. RunsOnlyApproved'
  BY <1>1, <1>2 DEF IInv, RunsOnlyApproved, storeVars, Applied
<1>. QED
  BY <1>4, <1>5, <1>7, <1>8, <1>9, <1>10, <1>11, <1>12, <1>13 DEF IInv

(* A commit cancelled in its handler: the key stays marked, which is what keeps
   others from writing it. *)
LEMMA CancelIInv ==
  ASSUME IInv, NEW c \in Commits, Cancel(c)
  PROVE  IInv'
<1>1. /\ commit[c].pc = "running"
      /\ commit'[c] = [commit[c] EXCEPT !.pc = "cancelled"]
      /\ \A d \in Commits \ {c} : commit'[d] = commit[d]
      /\ UNCHANGED <<storeVars, request, tokenVars, record>>
  BY DEF IInv, TypeOK, Cancel
<1>2. /\ commit'[c].pc = "cancelled" /\ commit'[c].answer = "none"
      /\ commit[c].pc = "running" /\ commit[c].answer = "none"
      /\ commit'[c].req = commit[c].req
      /\ \A d \in Commits \ {c} : commit'[d] = commit[d]
      /\ UNCHANGED <<storeVars, request, tokenVars, record>>
  BY <1>1 DEF IInv, TypeOK, Commit, AnswersAtEnd
<1>3. TypeOK' /\ OnlyIssued'
  BY <1>1 DEF IInv, TypeOK, OnlyIssued, Commit, Cancel, storeVars, tokenVars, Store!TypeOK
<1>4. AnswersAtEnd' /\ TokenIsGone'
  BY <1>2 DEF IInv, AnswersAtEnd, TokenIsGone, tokenVars
<1>5. HandlerHoldsKey' /\ WriteIsSettled'
  BY <1>2 DEF IInv, HandlerHoldsKey, WriteIsSettled, Applied, Key
<1>6. SettledByWrite'
  BY <1>2 DEF IInv, SettledByWrite, Applied, Key
<1>7. OneWritePerKey' /\ ReplaysTheWrite'
  BY <1>2 DEF IInv, OneWritePerKey, ReplaysTheWrite, Applied, Key
<1>8. TokenSpentOnce'
  BY <1>2 DEF IInv, TokenSpentOnce
<1>9. RunsOnlyApproved'
  BY <1>2 DEF IInv, RunsOnlyApproved, storeVars, Applied
<1>. QED
  BY <1>3, <1>4, <1>5, <1>6, <1>7, <1>8, <1>9 DEF IInv

-----------------------------------------------------------------------------
(* Nothing is requested, issued or written when the process starts. *)
LEMMA InitIInv == Init => IInv
<1>. SUFFICES ASSUME Init
              PROVE  IInv
  OBVIOUS
<1>1. TypeOK
  BY DEF Init, Blank, Idle, TypeOK, Request, Keyed, Commit, Store!Init, Store!TypeOK, Store!Empty,
         Store!Store
<1>2. OnlyIssued
  BY DEF Init, OnlyIssued, Store!Init, Store!Empty
<1>3. \A c \in Commits : /\ commit[c].pc = "idle" /\ commit[c].answer = "none"
                         /\ commit[c].req = NoRequest
  BY DEF Init, Idle
<1>4. \A k \in Keys : record[k].status = "none"
  BY DEF Init
<1>. QED
  BY <1>1, <1>2, <1>3, <1>4
     DEF IInv, AnswersAtEnd, TokenIsGone, HandlerHoldsKey, WriteIsSettled, SettledByWrite,
         OneWritePerKey, ReplaysTheWrite, TokenSpentOnce, RunsOnlyApproved, Applied

(* A request, allowed or not. *)
LEMMA RequestIInv ==
  ASSUME IInv, NEW q \in Requests, NEW a \in Approvals \cup {NoApproval},
         RequestAllowed(q, a) \/ RequestBlocked(q, a)
  PROVE  IInv'
<1>0. Store!TypeOK /\ OnlyIssued
  BY DEF IInv, TypeOK
<1>1. CASE RequestAllowed(q, a)
  BY <1>0, <1>1, TouchStep, AnsweredIInv DEF RequestAllowed
<1>2. CASE RequestBlocked(q, a)
  <2>. /\ request[q] = Blank /\ pending' = pending
       /\ UNCHANGED <<lapsed, record, commit>>
    BY <1>2 DEF RequestBlocked, tokenVars
  <2>1. CASE Answered(q, "rejected", a) /\ Store!Touch
    BY <1>0, <2>1, TouchStep, AnsweredIInv
  <2>2. CASE Answered(q, "requires_approval", a) /\ Store!Touch
    BY <1>0, <2>2, TouchStep, AnsweredIInv
  <2>3. ASSUME NEW b \in Approvals, NEW p \in Payloads,
               Store!Create(ExecOf[q], p, b), Answered(q, "requires_approval", b)
        PROVE  IInv'
    <3>1. StoreStep
      BY <1>0, <2>3, CreateStep, GatewayAssumption
    <3>. QED
      BY <2>3, <3>1, AnsweredIInv
  <2>4. CASE Answered(q, "failed", NoApproval) /\ (Store!Touch \/ UNCHANGED storeVars)
    <3>1. UNCHANGED storeVars => StoreStep
      BY <1>0 DEF storeVars, StoreStep, OnlyIssued, Store!TypeOK
    <3>. QED
      BY <1>0, <2>4, <3>1, TouchStep, AnsweredIInv
  <2>. QED
    BY <1>2, <2>1, <2>2, <2>3, <2>4 DEF RequestBlocked
<1>. QED
  BY <1>1, <1>2

(* A commit that goes no further than the token, the approval or the key. *)
LEMMA CommitEndsIInv ==
  ASSUME IInv, NEW c \in Commits, NEW q \in Requests,
         CommitInvalid(c, q) \/ CommitNotCleared(c, q) \/ CommitKeyTaken(c, q)
  PROVE  IInv'
<1>0. /\ Store!TypeOK /\ OnlyIssued
      /\ UNCHANGED storeVars => StoreStep
      /\ Check(q) => StoreStep
  <2>1. Store!TypeOK /\ OnlyIssued
    BY DEF IInv, TypeOK
  <2>2. UNCHANGED storeVars => StoreStep
    BY <2>1 DEF storeVars, StoreStep, OnlyIssued, Store!TypeOK
  <2>. QED
    BY <2>1, <2>2, TouchStep DEF Check
<1>1. CASE CommitInvalid(c, q)
  BY <1>0, <1>1, EndIInv DEF CommitInvalid
<1>2. CASE CommitNotCleared(c, q)
  <2>1. StoreStep /\ Take(c, q) /\ q \in pending
    BY <1>0, <1>2, TouchStep DEF CommitNotCleared, TokenValid
  <2>2. End(c, q, "requires_approval", q) \/ End(c, q, "rejected", q)
    BY <1>2 DEF CommitNotCleared
  <2>. QED
    BY <2>1, <2>2, EndIInv
<1>3. CASE CommitKeyTaken(c, q)
  <2>1. StoreStep /\ Take(c, q) /\ q \in pending
    BY <1>0, <1>3 DEF CommitKeyTaken, TokenValid
  <2>2. CASE record[KeyOf[q]].status = "succeeded" /\ End(c, q, "replayed", record[KeyOf[q]].by)
    <3>1. record[KeyOf[q]].by \in Requests \cup {NoRequest}
      BY GatewayAssumption DEF IInv, TypeOK, Keyed
    <3>. QED
      BY <2>1, <2>2, <3>1, EndIInv
  <2>3. CASE End(c, q, "in_progress", q)
    BY <2>1, <2>3, EndIInv
  <2>. QED
    BY <1>3, <2>2, <2>3 DEF CommitKeyTaken
<1>. QED
  BY <1>1, <1>2, <1>3

(* A commit that starts its handler has just seen the grant it needs. *)
LEMMA CommitRunIInv ==
  ASSUME IInv, NEW c \in Commits, NEW q \in Requests, CommitRun(c, q)
  PROVE  IInv'
<1>0. Store!TypeOK /\ OnlyIssued
  BY DEF IInv, TypeOK
<1>1. CASE request[q].approval = NoApproval
  <2>1. StoreStep
    BY <1>0, <1>1 DEF CommitRun, Check, storeVars, StoreStep, OnlyIssued, Store!TypeOK
  <2>. QED
    BY <1>1, <2>1, RunIInv
<1>2. CASE request[q].approval # NoApproval
  <2>1. StoreStep /\ approvals' = Store!Current
    BY <1>0, <1>2, TouchStep DEF CommitRun, Check
  <2>2. Store!Current[request[q].approval].status = "approved"
    BY <1>2 DEF CommitRun, Cleared, Store!FullyApproved
  <2>. QED
    BY <2>1, <2>2, RunIInv
<1>. QED
  BY <1>1, <1>2

(* Approvals decided or expired elsewhere. *)
LEMMA ElsewhereIInv ==
  ASSUME IInv, Elsewhere
  PROVE  IInv'
<1>0. Store!TypeOK /\ OnlyIssued
  BY DEF IInv, TypeOK
<1>1. PICK a \in Approvals :
        \/ Store!Approve(a) \/ Store!Reject(a) \/ Store!Age(a)
        \/ \E e \in Executions, p \in Payloads : Store!Create(e, p, a)
  BY DEF Elsewhere
<1>2. CASE Store!Approve(a)
  BY <1>0, <1>2, DecideStep, StoreOnlyIInv DEF Elsewhere, Store!Approve
<1>3. CASE Store!Reject(a)
  BY <1>0, <1>3, DecideStep, StoreOnlyIInv DEF Elsewhere, Store!Reject
<1>4. CASE Store!Age(a)
  BY <1>0, <1>4, AgeStep, StoreOnlyIInv DEF Elsewhere
<1>5. CASE \E e \in Executions, p \in Payloads : Store!Create(e, p, a)
  BY <1>0, <1>5, CreateStep, StoreOnlyIInv DEF Elsewhere
<1>. QED
  BY <1>1, <1>2, <1>3, <1>4, <1>5

(* Every step keeps the invariant. *)
LEMMA NextIInv == IInv /\ [Next]_vars => IInv'
<1>. SUFFICES ASSUME IInv, [Next]_vars
              PROVE  IInv'
  OBVIOUS
<1>1. ASSUME NEW q \in Requests, Lapse(q)
      PROVE  IInv'
  BY <1>1, LapseIInv
<1>2. ASSUME NEW q \in Requests, NEW a \in Approvals \cup {NoApproval},
             RequestAllowed(q, a) \/ RequestBlocked(q, a)
      PROVE  IInv'
  BY <1>2, RequestIInv
<1>3. ASSUME NEW c \in Commits, NEW q \in Requests,
             CommitInvalid(c, q) \/ CommitNotCleared(c, q) \/ CommitKeyTaken(c, q)
      PROVE  IInv'
  BY <1>3, CommitEndsIInv
<1>4. ASSUME NEW c \in Commits, NEW q \in Requests, CommitRun(c, q)
      PROVE  IInv'
  BY <1>4, CommitRunIInv
<1>5. ASSUME NEW c \in Commits, NEW succeeded \in BOOLEAN, Return(c, succeeded)
      PROVE  IInv'
  BY <1>5, ReturnIInv
<1>6. ASSUME NEW c \in Commits, Cancel(c)
      PROVE  IInv'
  BY <1>6, CancelIInv
<1>7. CASE Elsewhere
  BY <1>7, ElsewhereIInv
<1>8. CASE UNCHANGED vars
  <2>1. StoreStep
    BY <1>8 DEF IInv, TypeOK, vars, storeVars, StoreStep, OnlyIssued, Store!TypeOK
  <2>. QED
    BY <1>8, <2>1, StoreOnlyIInv DEF vars
<1>. QED
  BY <1>1, <1>2, <1>3, <1>4, <1>5, <1>6, <1>7, <1>8 DEF Next

(* The inductive invariant holds throughout. *)
LEMMA IInvHolds == Spec => []IInv
  BY InitIInv, NextIInv, PTL DEF Spec

-----------------------------------------------------------------------------
(* Tokens, records and coroutines keep their shape. *)
THEOREM TypeCorrect == Spec => []TypeOK
<1>1. IInv => TypeOK
  BY DEF IInv
<1>. QED
  BY <1>1, IInvHolds, PTL

(* A key is written at most once and by one handler at a time, whatever the
   requests under it, its failures and its cancellations. *)
THEOREM KeyIsWrittenOnce == Spec => []OneWritePerKey
<1>1. IInv => OneWritePerKey
  BY DEF IInv
<1>. QED
  BY <1>1, IInvHolds, PTL

(* A replay answers with the one write of its key. *)
THEOREM ReplayIsTheWrite == Spec => []ReplaysTheWrite
<1>1. IInv => ReplaysTheWrite
  BY DEF IInv
<1>. QED
  BY <1>1, IInvHolds, PTL

(* A token is worth one commit. *)
THEOREM TokenIsWorthOneCommit == Spec => []TokenSpentOnce
<1>1. IInv => TokenSpentOnce
  BY DEF IInv
<1>. QED
  BY <1>1, IInvHolds, PTL

(* A handler runs only for a request whose approval, if it names one, is
   granted. *)
THEOREM HandlerNeedsGrant == Spec => []RunsOnlyApproved
<1>1. IInv => RunsOnlyApproved
  BY DEF IInv
<1>. QED
  BY <1>1, IInvHolds, PTL
==============================================================================
