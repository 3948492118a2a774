------------------------ MODULE ApprovalState_proofs ------------------------
(***************************************************************************)
(* Theorems about ApprovalState for any sets of approvals, executions and  *)
(* payloads, with writes that succeed or may fail.                         *)
(*                                                                         *)
(* The inductive invariant says of the file what the theorems need after a *)
(* restart: it holds only records memory once held (DiskBehind), its       *)
(* expired records are stale (ExpiredIsAged) and it is free of duplicates. *)
(***************************************************************************)
EXTENDS ApprovalState, TLAPS

(* uuid4 gives no id twice: what it has not returned names no record. *)
OnlyIssued == \A a \in Approvals \ issued : approvals[a] = NoRecord /\ disk[a] = NoRecord

IInv == TypeOK /\ OnlyIssued /\ OneLivePerRequest /\ DiskBehind /\ ExpiredIsAged

-----------------------------------------------------------------------------
(* Expiring a store gives a store: each record as it was, or pending and stale
   and now expired. *)
LEMMA ExpiredShape ==
  ASSUME NEW A \in Store
  PROVE  /\ Expired(A) \in Store
         /\ \A a \in Approvals :
              \/ Expired(A)[a] = A[a] /\ ~(A[a].status = "pending" /\ a \in aged)
              \/ /\ A[a].status = "pending" /\ a \in aged
                 /\ Expired(A)[a] = [A[a] EXCEPT !.status = "expired"]
  BY DEF Expired, Store, Record, NoRecord

(* Expiry keeps a store free of duplicates: it only ends lives. *)
LEMMA ExpiredOneLive ==
  ASSUME NEW A \in Store, OneLive(A)
  PROVE  OneLive(Expired(A))
  BY DEF Expired, Store, Record, NoRecord, OneLive, Live

(* A write leaves the file as it was or makes it the new store. *)
LEMMA WrittenIs ==
  ASSUME NEW file, NEW old, NEW new, NEW d \in Written(file, old, new)
  PROVE  d = file \/ d = new
  BY DEF Written

(* After an operation the file is as before, or the store with the stale
   approvals expired, or the new store. *)
LEMMA CommitFile ==
  ASSUME NEW new, Commit(new)
  PROVE  /\ approvals' = new
         /\ disk' \in {disk, Current, new}
  BY WrittenIs DEF Commit, Written

(* Being behind composes, so a file that lags by several operations still lags. *)
LEMMA BehindTrans ==
  ASSUME NEW x \in Record \cup {NoRecord}, NEW y \in Record \cup {NoRecord},
         NEW z \in Record \cup {NoRecord}, Behind(x, y), Behind(y, z)
  PROVE  Behind(x, z)
  <1>1. CASE x = NoRecord \/ x = y \/ y = z
    BY <1>1 DEF Behind
  <1>2. CASE /\ x # NoRecord /\ x # y /\ y # z
             /\ x.status = "pending" /\ y = [x EXCEPT !.status = y.status]
    <2>1. x \in Record /\ y \in Record
      BY <1>2 DEF Record, NoRecord
    <2>2. y.status = "pending" /\ z = [y EXCEPT !.status = z.status]
      BY <1>2, <2>1 DEF Behind, Record, NoRecord
    <2> QED
      BY <1>2, <2>1, <2>2 DEF Behind, Record, NoRecord
  <1> QED
    BY <1>1, <1>2 DEF Behind

(* Expiry is a step the file may lag behind. *)
LEMMA ExpiredBehind ==
  ASSUME NEW A \in Store, NEW a \in Approvals
  PROVE  Behind(A[a], Expired(A)[a])
  <1>1. CASE Expired(A)[a] = A[a]
    BY <1>1 DEF Behind
  <1>2. CASE /\ A[a].status = "pending"
             /\ Expired(A)[a] = [A[a] EXCEPT !.status = "expired"]
    <2>1. A[a] \in Record
      BY <1>2 DEF Store, NoRecord
    <2>2. Expired(A)[a].status = "expired"
      BY <1>2, <2>1 DEF Record
    <2> QED
      BY <1>2, <2>2 DEF Behind
  <1> QED
    BY <1>1, <1>2, ExpiredShape

(* An id that was never issued names no record, expired or not. *)
LEMMA UnissuedCurrent ==
  ASSUME IInv
  PROVE  \A a \in Approvals \ issued : Current[a] = NoRecord
  BY ExpiredShape DEF IInv, TypeOK, OnlyIssued, Current, NoRecord

(* What the expiry of an operation finds expired, or expires, is stale. *)
LEMMA CurrentExpired ==
  ASSUME IInv
  PROVE  \A a \in Approvals : Current[a].status = "expired" => a \in aged
  BY ExpiredShape DEF IInv, TypeOK, ExpiredIsAged, Current, Store, Record, NoRecord

(* What an operation must show of its new store for the invariant to hold
   after it, whichever of its writes succeed. *)
LEMMA CommitKeeps ==
  ASSUME IInv, NEW new \in Store, Commit(new), OneLive(new),
         \A a \in Approvals : Behind(Current[a], new[a]),
         \A a \in issued : Current[a] = NoRecord => new[a] = NoRecord,
         \A a \in Approvals : new[a].status = "expired" => a \in aged,
         aged' = aged, issued \subseteq issued', issued' \subseteq Approvals,
         \A a \in Approvals \ issued' : new[a] = NoRecord
  PROVE  IInv'
  <1>1. approvals \in Store /\ disk \in Store /\ Current \in Store
    BY ExpiredShape DEF IInv, TypeOK, Current
  <1>2. approvals' = new /\ disk' \in {disk, Current, new}
    BY CommitFile
  <1>3. TypeOK'
    BY <1>1, <1>2 DEF IInv, TypeOK
  <1>4. OneLivePerRequest'
    <2>1. OneLive(disk) /\ OneLive(Current)
      BY <1>1, ExpiredOneLive DEF IInv, OneLivePerRequest, TypeOK, Current
    <2>2. OneLive(approvals)' /\ OneLive(disk)'
      BY <1>2, <2>1 DEF OneLive, Live
    <2> QED
      BY <2>2 DEF OneLivePerRequest
  <1>5. DiskBehind'
    <2> SUFFICES ASSUME NEW a \in Approvals
                 PROVE  approvals'[a] = NoRecord \/ Behind(disk'[a], approvals'[a])
      BY DEF DiskBehind
    <2>1. /\ disk[a] \in Record \cup {NoRecord} /\ approvals[a] \in Record \cup {NoRecord}
          /\ Current[a] \in Record \cup {NoRecord} /\ new[a] \in Record \cup {NoRecord}
      BY <1>1 DEF Store
    <2>2. Behind(approvals[a], Current[a]) /\ Behind(Current[a], new[a])
      BY <1>1, ExpiredBehind DEF Current
    <2>3. Behind(new[a], new[a])
      BY DEF Behind
    <2>4. CASE approvals[a] = NoRecord
      <3>1. Current[a] = NoRecord
        BY <2>4 DEF Current, Expired, NoRecord
      <3>2. CASE a \in issued
        BY <1>2, <2>4, <3>1, <3>2
      <3>3. CASE a \notin issued
        <4>1. disk[a] = NoRecord
          BY <3>3 DEF IInv, OnlyIssued
        <4> QED
          BY <1>2, <2>3, <3>1, <4>1 DEF Behind
      <3> QED
        BY <3>2, <3>3
    <2>5. CASE approvals[a] # NoRecord
      <3>1. Behind(disk[a], approvals[a])
        BY <2>5 DEF IInv, DiskBehind
      <3>2. Behind(disk[a], Current[a])
        BY <2>1, <2>2, <3>1, BehindTrans
      <3>3. Behind(disk[a], new[a])
        BY <2>1, <2>2, <3>2, BehindTrans
      <3> QED
        BY <1>2, <2>2, <2>3, <3>3
    <2> QED
      BY <2>4, <2>5
  <1>6. ExpiredIsAged'
    <2>1. \A a \in Approvals : Current[a].status = "expired" => a \in aged
      BY CurrentExpired
    <2> QED
      BY <1>2, <2>1 DEF IInv, ExpiredIsAged
  <1>7. OnlyIssued'
    BY <1>2, UnissuedCurrent DEF IInv, OnlyIssued
  <1> QED
    BY <1>3, <1>4, <1>5, <1>6, <1>7 DEF IInv

(* Deciding a pending approval is such a new store. *)
LEMMA DecideKeeps ==
  ASSUME IInv, NEW a \in Approvals, NEW d \in {"approved", "rejected"},
         Commit(IF Current[a].status = "pending"
                  THEN [Current EXCEPT ![a].status = d] ELSE Current),
         UNCHANGED <<aged, issued>>
  PROVE  IInv'
  <1> DEFINE new == IF Current[a].status = "pending"
                      THEN [Current EXCEPT ![a].status = d] ELSE Current
  <1>1. Current \in Store /\ OneLive(Current)
    BY ExpiredShape, ExpiredOneLive DEF IInv, TypeOK, OneLivePerRequest, Current
  <1>2. \A b \in Approvals : Current[b].status = "expired" => b \in aged
    BY CurrentExpired
  <1>3. new \in Store
    BY <1>1 DEF Store, Record, NoRecord
  <1>4. OneLive(new)
    BY <1>1 DEF OneLive, Live, Store, Record, NoRecord
  <1>5. \A b \in Approvals : Behind(Current[b], new[b])
    BY <1>1 DEF Behind, Store, Record, NoRecord
  <1>6. \A b \in Approvals : new[b].status = "expired" => b \in aged
    BY <1>1, <1>2 DEF Store, Record, NoRecord
  <1>7. \A b \in Approvals \ issued : new[b] = NoRecord
    BY <1>1, UnissuedCurrent DEF Store, NoRecord
  <1>8. \A b \in Approvals : Current[b] = NoRecord => new[b] = NoRecord
    BY <1>1 DEF Store, NoRecord
  <1>9. Commit(new)
    OBVIOUS
  <1> HIDE DEF new
  <1> QED
    BY <1>3, <1>4, <1>5, <1>6, <1>7, <1>8, <1>9, CommitKeeps DEF IInv, TypeOK

-----------------------------------------------------------------------------
(* The empty store satisfies the invariant. *)
LEMMA InitIInv == Init => IInv
  BY DEF Init, Empty, IInv, TypeOK, Store, NoRecord, Record, OneLivePerRequest, OneLive, Live,
         DiskBehind, Behind, ExpiredIsAged, OnlyIssued

(* A read preserves the invariant: it only expires what is stale. *)
LEMMA TouchIInv ==
  ASSUME IInv, Touch
  PROVE  IInv'
  <1>1. Current \in Store /\ OneLive(Current)
    BY ExpiredShape, ExpiredOneLive DEF IInv, TypeOK, OneLivePerRequest, Current
  <1>2. \A a \in Approvals : Behind(Current[a], Current[a])
    BY DEF Behind
  <1>3. \A a \in Approvals : Current[a].status = "expired" => a \in aged
    BY CurrentExpired
  <1> QED
    BY <1>1, <1>2, <1>3, CommitKeeps, UnissuedCurrent DEF Touch, IInv, TypeOK

(* create preserves the invariant: a live approval of the request is reused. *)
LEMMA CreateIInv ==
  ASSUME IInv, NEW a \in Approvals, NEW e \in Executions, NEW p \in Payloads, Create(e, p, a)
  PROVE  IInv'
  <1> DEFINE new == [Current EXCEPT ![a] = [status |-> "pending", exec |-> e, payload |-> p]]
  <1>1. CASE Touch
    BY <1>1, TouchIInv
  <1>2. CASE /\ Matching(Current, e, p) = {}
             /\ a \in Approvals \ issued
             /\ issued' = issued \cup {a}
             /\ Commit(new)
             /\ UNCHANGED aged
    <2>1. Current \in Store /\ OneLive(Current)
      BY ExpiredShape, ExpiredOneLive DEF IInv, TypeOK, OneLivePerRequest, Current
    <2>2. \A b \in Approvals : Current[b].status = "expired" => b \in aged
      BY CurrentExpired
    <2>3. new \in Store
      BY <2>1 DEF Store, Record
    <2>4. OneLive(new)
      BY <1>2, <2>1 DEF OneLive, Live, Matching, Store
    <2>5. \A b \in Approvals \ issued : Current[b] = NoRecord
      BY UnissuedCurrent
    <2>6. \A b \in Approvals : Behind(Current[b], new[b])
      BY <1>2, <2>1, <2>5 DEF Behind, Store
    <2>7. \A b \in Approvals : new[b].status = "expired" => b \in aged
      BY <2>1, <2>2 DEF Store
    <2>8. \A b \in Approvals \ issued' : new[b] = NoRecord
      BY <1>2, <2>1, <2>5 DEF Store
    <2>9. \A b \in issued : Current[b] = NoRecord => new[b] = NoRecord
      BY <1>2, <2>1 DEF Store, IInv, TypeOK
    <2> HIDE DEF new
    <2> QED
      BY <1>2, <2>3, <2>4, <2>6, <2>7, <2>8, <2>9, CommitKeeps DEF IInv, TypeOK
  <1> QED
    BY <1>1, <1>2 DEF Create

(* The clock preserves the invariant: it touches no record. *)
LEMMA AgeIInv ==
  ASSUME IInv, NEW a \in Approvals, Age(a)
  PROVE  IInv'
  BY DEF IInv, Age, TypeOK, OnlyIssued, OneLivePerRequest, OneLive, Live, DiskBehind, ExpiredIsAged

(* A process that starts empty knows nothing of the file and leaves it. *)
LEMMA RestartEmptyIInv ==
  ASSUME IInv, approvals' = Expired(Empty), disk' \in Written(disk, Empty, Expired(Empty)),
         UNCHANGED <<aged, issued>>
  PROVE  IInv'
  <1>1. Expired(Empty) = Empty
    BY DEF Expired, Empty, NoRecord
  <1>2. approvals' = Empty /\ disk' = disk
    BY <1>1 DEF Written
  <1> QED
    BY <1>2 DEF Empty, IInv, TypeOK, Store, NoRecord, Record, OnlyIssued, OneLivePerRequest,
                OneLive, Live, DiskBehind, Behind, ExpiredIsAged

(* A restart reads a file that lags, expires what went stale meanwhile, and
   memory starts from there. *)
LEMMA RestartIInv ==
  ASSUME IInv, Restart
  PROVE  IInv'
  <1>1. disk \in Store /\ OneLive(disk)
    BY DEF IInv, TypeOK, OneLivePerRequest
  <1>2. Expired(disk) \in Store /\ OneLive(Expired(disk))
    BY <1>1, ExpiredShape, ExpiredOneLive
  <1>3. CASE /\ approvals' = Expired(disk) /\ disk' \in {disk, Expired(disk)}
             /\ UNCHANGED <<aged, issued>>
    <2>1. TypeOK'
      BY <1>1, <1>2, <1>3 DEF IInv, TypeOK
    <2>2. OneLivePerRequest'
      BY <1>1, <1>2, <1>3 DEF OneLivePerRequest, OneLive, Live
    <2>3. DiskBehind'
      <3>1. \A a \in Approvals : Behind(disk[a], Expired(disk)[a])
        BY <1>1, ExpiredBehind
      <3>2. \A a \in Approvals : Behind(Expired(disk)[a], Expired(disk)[a])
        BY DEF Behind
      <3> QED
        BY <1>3, <3>1, <3>2 DEF DiskBehind
    <2>4. ExpiredIsAged'
      <3>1. \A a \in Approvals : disk[a].status = "expired" => a \in aged
        BY DEF IInv, ExpiredIsAged
      <3>2. \A a \in Approvals : Expired(disk)[a] = disk[a] \/ a \in aged
        BY <1>1, ExpiredShape
      <3> QED
        BY <1>3, <3>1, <3>2 DEF ExpiredIsAged
    <2>5. OnlyIssued'
      <3> SUFFICES ASSUME NEW a \in Approvals \ issued
                   PROVE  approvals'[a] = NoRecord /\ disk'[a] = NoRecord
        BY <1>3 DEF OnlyIssued
      <3>1. disk[a] = NoRecord
        BY DEF IInv, OnlyIssued
      <3>2. Expired(disk)[a] = NoRecord
        BY <3>1 DEF Expired, NoRecord
      <3> QED
        BY <1>3, <3>1, <3>2
    <2> QED
      BY <2>1, <2>2, <2>3, <2>4, <2>5 DEF IInv
  <1> QED
    BY <1>3, RestartEmptyIInv, WrittenIs DEF Restart

(* Every step preserves the invariant. *)
LEMMA NextIInv ==
  ASSUME IInv, [Next]_storeVars
  PROVE  IInv'
  <1>1. CASE Touch
    BY <1>1, TouchIInv
  <1>2. ASSUME NEW a \in Approvals, NEW e \in Executions, NEW p \in Payloads, Create(e, p, a)
        PROVE  IInv'
    BY <1>2, CreateIInv
  <1>3. ASSUME NEW a \in Approvals, Approve(a)
        PROVE  IInv'
    BY <1>3, DecideKeeps DEF Approve
  <1>4. ASSUME NEW a \in Approvals, Reject(a)
        PROVE  IInv'
    BY <1>4, DecideKeeps DEF Reject
  <1>5. ASSUME NEW a \in Approvals, Age(a)
        PROVE  IInv'
    BY <1>5, AgeIInv
  <1>6. CASE Restart
    BY <1>6, RestartIInv
  <1>7. CASE UNCHANGED storeVars
    BY <1>7 DEF storeVars, IInv, TypeOK, OnlyIssued, OneLivePerRequest, OneLive, Live,
             DiskBehind, ExpiredIsAged
  <1> QED
    BY <1>1, <1>2, <1>3, <1>4, <1>5, <1>6, <1>7 DEF Next

(* The store's state is well formed whatever its callers do and whichever
   writes fail. *)
THEOREM TypeCorrect == Spec => []TypeOK
  <1>1. Spec => []IInv
    BY InitIInv, NextIInv, PTL DEF Spec
  <1>2. IInv => TypeOK
    BY DEF IInv
  <1> QED
    BY <1>1, <1>2, PTL

(* create's deduplication: never two live approvals of one request, in memory
   or in the file the next process reads. *)
THEOREM NoDuplicateApproval == Spec => []OneLivePerRequest
  <1>1. Spec => []IInv
    BY InitIInv, NextIInv, PTL DEF Spec
  <1>2. IInv => OneLivePerRequest
    BY DEF IInv
  <1> QED
    BY <1>1, <1>2, PTL

(* The clock alone decides: an approval is expired only once its TTL ran out. *)
THEOREM OnlyTheStaleExpire == Spec => []ExpiredIsAged
  <1>1. IInv => ExpiredIsAged
    BY DEF IInv
  <1> QED
    BY <1>1, InitIInv, NextIInv, PTL DEF Spec

(* The file holds nothing memory has not held: it lags behind by whole records. *)
THEOREM FileLagsBehind == Spec => []DiskBehind
  <1>1. Spec => []IInv
    BY InitIInv, NextIInv, PTL DEF Spec
  <1>2. IInv => DiskBehind
    BY DEF IInv
  <1> QED
    BY <1>1, <1>2, PTL

-----------------------------------------------------------------------------
(* What one operation does to one record, once stale records are expired. *)
Moved(old, new) ==
  \/ new = old
  \/ old = NoRecord /\ new \in Record /\ new.status = "pending"
  \/ /\ old \in Record /\ old.status = "pending"
     /\ \E d \in {"approved", "rejected"} : new = [old EXCEPT !.status = d]

(* Deciding an approval: how each record may move. *)
LEMMA DecideMoves ==
  ASSUME IInv, NEW a \in Approvals, NEW d \in {"approved", "rejected"},
         Commit(IF Current[a].status = "pending"
                  THEN [Current EXCEPT ![a].status = d] ELSE Current)
  PROVE  \A b \in Approvals : Moved(Current[b], approvals'[b])
  <1>1. Current \in Store
    BY ExpiredShape DEF IInv, TypeOK, Current
  <1>2. approvals' = IF Current[a].status = "pending"
                       THEN [Current EXCEPT ![a].status = d] ELSE Current
    BY DEF Commit
  <1>3. CASE Current[a].status = "pending"
    <2>1. Current[a] \in Record
      BY <1>1, <1>3 DEF Store, NoRecord
    <2>2. approvals'[a] = [Current[a] EXCEPT !.status = d]
      BY <1>1, <1>2, <1>3 DEF Store
    <2>3. \A b \in Approvals \ {a} : approvals'[b] = Current[b]
      BY <1>1, <1>2, <1>3 DEF Store
    <2> QED
      BY <1>3, <2>1, <2>2, <2>3 DEF Moved
  <1>4. CASE Current[a].status # "pending"
    BY <1>2, <1>4 DEF Moved
  <1> QED
    BY <1>3, <1>4

(* Any operation short of a restart: how each record may move. *)
LEMMA OperationMoves ==
  ASSUME IInv, [Next]_storeVars, ~Restart, ~UNCHANGED approvals
  PROVE  \A b \in Approvals : Moved(Current[b], approvals'[b])
  <1>1. CASE Touch
    BY <1>1 DEF Touch, Commit, Moved
  <1>2. ASSUME NEW a \in Approvals, NEW e \in Executions, NEW p \in Payloads, Create(e, p, a)
        PROVE  \A b \in Approvals : Moved(Current[b], approvals'[b])
    <2>1. CASE Touch
      BY <2>1 DEF Touch, Commit, Moved
    <2>2. CASE ~Touch
      <3>1. Current \in Store /\ Current[a] = NoRecord
        BY <1>2, <2>2, ExpiredShape, UnissuedCurrent DEF Create, IInv, TypeOK, Current
      <3>2. approvals' = [Current EXCEPT ![a] = [status |-> "pending", exec |-> e, payload |-> p]]
        BY <1>2, <2>2 DEF Create, Commit
      <3> QED
        BY <3>1, <3>2 DEF Moved, Store, Record
    <2> QED
      BY <2>1, <2>2
  <1>3. ASSUME NEW a \in Approvals, Approve(a) \/ Reject(a)
        PROVE  \A b \in Approvals : Moved(Current[b], approvals'[b])
    BY <1>3, DecideMoves DEF Approve, Reject
  <1>4. ASSUME NEW a \in Approvals, Age(a)
        PROVE  FALSE
    BY <1>4 DEF Age
  <1> QED
    BY <1>1, <1>2, <1>3, <1>4 DEF Next, storeVars

(* A restart moves a record at most to expired, or loses one that was never
   written or not read. *)
LEMMA RestartMoves ==
  ASSUME IInv, Restart, NEW a \in Approvals
  PROVE  /\ approvals[a].status = "expired" => approvals'[a].status \in {"expired", "absent"}
         /\ a \in aged /\ approvals[a].status = "pending" => approvals'[a].status # "approved"
  <1>1. /\ disk \in Store /\ approvals \in Store
        /\ approvals' = Expired(disk) \/ approvals' = Expired(Empty)
    BY DEF IInv, TypeOK, Restart
  <1>2. CASE approvals[a] = NoRecord
    BY <1>2 DEF NoRecord
  <1>3. CASE approvals' = Expired(Empty)
    BY <1>3 DEF Expired, Empty, NoRecord
  <1>4. CASE approvals' = Expired(disk) /\ approvals[a] # NoRecord
    <2>1. Behind(disk[a], approvals[a])
      BY <1>4 DEF IInv, DiskBehind
    <2>2. CASE disk[a] = NoRecord
      BY <1>4, <2>2 DEF Expired, NoRecord
    <2>3. CASE disk[a] = approvals[a]
      BY <1>4, <2>3 DEF Expired
    <2>4. CASE disk[a] # NoRecord /\ disk[a].status = "pending"
      <3>1. disk[a] \in Record
        BY <1>1, <2>4 DEF Store
      <3>2. a \in aged => approvals'[a].status = "expired"
        BY <1>4, <2>4, <3>1 DEF Expired, Record
      <3>3. approvals'[a].status # "approved"
        BY <1>4, <2>4, <3>1 DEF Expired, Record
      <3>4. approvals[a].status = "expired" => a \in aged
        BY DEF IInv, ExpiredIsAged
      <3> QED
        BY <3>2, <3>3, <3>4
    <2> QED
      BY <2>1, <2>2, <2>3, <2>4 DEF Behind
  <1> QED
    BY <1>1, <1>2, <1>3, <1>4

(* One operation on one record, as the two action properties see it. *)
LEMMA StepMoves ==
  ASSUME IInv, [Next]_storeVars, NEW a \in Approvals
  PROVE  /\ approvals[a].status = "expired" => approvals'[a].status \in {"expired", "absent"}
         /\ a \in aged /\ approvals[a].status = "pending" => approvals'[a].status # "approved"
  <1>1. CASE Restart
    BY <1>1, RestartMoves
  <1>2. CASE UNCHANGED approvals
    BY <1>2
  <1>3. CASE ~Restart /\ ~UNCHANGED approvals
    <2>1. Moved(Current[a], approvals'[a])
      BY <1>3, OperationMoves
    <2>2. approvals \in Store
      BY DEF IInv, TypeOK
    <2>3. CASE approvals[a].status = "expired"
      <3>1. Current[a] = approvals[a]
        BY <2>2, <2>3, ExpiredShape DEF Current
      <3> QED
        BY <2>1, <2>3, <3>1 DEF Moved, NoRecord
    <2>4. CASE a \in aged /\ approvals[a].status = "pending"
      <3>1. approvals[a] \in Record
        BY <2>2, <2>4 DEF Store, NoRecord
      <3>2. Current[a].status = "expired"
        BY <2>4, <3>1 DEF Current, Expired, Record
      <3> QED
        BY <2>1, <2>4, <3>2 DEF Moved, NoRecord
    <2> QED
      BY <2>3, <2>4
  <1> QED
    BY <1>1, <1>2, <1>3

(* Expired approvals are terminal, also when writes fail and across restarts. *)
THEOREM ExpiredStaysExpired == Spec => ExpiredIsTerminal
  <1>1. Spec => []IInv
    BY InitIInv, NextIInv, PTL DEF Spec
  <1>2. IInv /\ [Next]_storeVars
          => [\A a \in Approvals : approvals[a].status = "expired"
                 => approvals'[a].status \in {"expired", "absent"}]_storeVars
    BY StepMoves
  <1> QED
    BY <1>1, <1>2, PTL DEF Spec, ExpiredIsTerminal

(* No approval is granted after its TTL, also when writes fail and across
   restarts. *)
THEOREM NoGrantAfterTTL == Spec => NoStaleGrant
  <1>1. Spec => []IInv
    BY InitIInv, NextIInv, PTL DEF Spec
  <1>2. IInv /\ [Next]_storeVars
          => [\A a \in aged : approvals[a].status = "pending"
                 => approvals'[a].status # "approved"]_storeVars
    <2> SUFFICES ASSUME IInv, [Next]_storeVars, NEW a \in aged, approvals[a].status = "pending"
                 PROVE  approvals'[a].status # "approved"
      OBVIOUS
    <2>1. a \in Approvals
      BY DEF IInv, TypeOK
    <2> QED
      BY <2>1, StepMoves
  <1> QED
    BY <1>1, <1>2, PTL DEF Spec, NoStaleGrant

-----------------------------------------------------------------------------
(* When no write fails the file and memory agree between operations, a restart
   is a stutter or an expiry, and the store implements the lifecycle. *)
InStep == disk = approvals

(* While writes succeed an operation leaves the file equal to memory. *)
LEMMA CommitInStep ==
  ASSUME DiskMayFail = FALSE, InStep, NEW new, Commit(new)
  PROVE  InStep'
  BY DEF InStep, Commit, Written

(* While reads and writes succeed a restart is an expiry. *)
LEMMA RestartInStep ==
  ASSUME DiskMayFail = FALSE, InStep, Restart
  PROVE  approvals' = Expired(approvals) /\ disk' = approvals'
  BY DEF Restart, Written, InStep

(* While writes succeed the file stays equal to memory. *)
LEMMA NextInStep ==
  ASSUME DiskMayFail = FALSE, InStep, [Next]_storeVars
  PROVE  InStep'
  <1>1. CASE Touch
    BY <1>1, CommitInStep DEF Touch
  <1>2. ASSUME NEW a \in Approvals, NEW e \in Executions, NEW p \in Payloads, Create(e, p, a)
        PROVE  InStep'
    BY <1>1, <1>2, CommitInStep DEF Create
  <1>3. ASSUME NEW a \in Approvals, Approve(a)
        PROVE  InStep'
    BY <1>3, CommitInStep DEF Approve
  <1>4. ASSUME NEW a \in Approvals, Reject(a)
        PROVE  InStep'
    BY <1>4, CommitInStep DEF Reject
  <1>5. ASSUME NEW a \in Approvals, Age(a)
        PROVE  InStep'
    BY <1>5 DEF Age, InStep
  <1>6. CASE Restart
    BY <1>6, RestartInStep DEF InStep
  <1>7. CASE UNCHANGED storeVars
    BY <1>7 DEF storeVars, InStep
  <1> QED
    BY <1>1, <1>2, <1>3, <1>4, <1>5, <1>6, <1>7 DEF Next

(* What an operation does to a record is a move of the lifecycle. *)
LEMMA MoveImplements ==
  ASSUME DiskMayFail = FALSE, IInv, InStep, [Next]_storeVars, NEW a \in Approvals
  PROVE  Lifecycle!Move(approvals[a], approvals'[a])
  <1>1. approvals \in Store
    BY DEF IInv, TypeOK
  <1>2. CASE UNCHANGED approvals
    BY <1>2 DEF Lifecycle!Move
  <1>3. \/ Expired(approvals)[a] = approvals[a]
        \/ /\ approvals[a] \in Record /\ approvals[a].status = "pending"
           /\ Expired(approvals)[a] = [approvals[a] EXCEPT !.status = "expired"]
    BY <1>1, ExpiredShape DEF Store, NoRecord
  <1>4. CASE Restart
    BY <1>3, <1>4, RestartInStep DEF Lifecycle!Move, Lifecycle!Decisions, Lifecycle!Record, Record
  <1>5. CASE ~Restart /\ ~UNCHANGED approvals
    <2>1. Moved(Current[a], approvals'[a])
      BY <1>5, OperationMoves
    <2>2. CASE Current[a] = approvals[a]
      BY <2>1, <2>2 DEF Moved, Lifecycle!Move, Lifecycle!Decisions, Lifecycle!Record,
                        Lifecycle!NoRecord, Record, NoRecord
    <2>3. CASE /\ approvals[a] \in Record /\ approvals[a].status = "pending"
               /\ Current[a] = [approvals[a] EXCEPT !.status = "expired"]
      <3>1. approvals'[a] = Current[a]
        BY <2>1, <2>3 DEF Moved, Record, NoRecord
      <3> QED
        BY <2>3, <3>1 DEF Lifecycle!Move, Lifecycle!Decisions, Lifecycle!Record, Record
    <2> QED
      BY <1>3, <2>2, <2>3 DEF Current
  <1> QED
    BY <1>2, <1>4, <1>5

(* With reliable writes the store, its expiry, its file and its restarts
   implement the lifecycle of the docstring. *)
THEOREM ImplementsLifecycle ==
  ASSUME DiskMayFail = FALSE
  PROVE  Spec => KeepsLifecycle
  <1>1. Init => InStep /\ IInv /\ Lifecycle!Init
    BY InitIInv DEF Init, Empty, InStep, Lifecycle!Init, NoRecord, Lifecycle!NoRecord
  <1>2. IInv /\ InStep /\ [Next]_storeVars => IInv' /\ InStep'
    BY NextIInv, NextInStep
  <1>3. IInv /\ IInv' /\ InStep /\ [Next]_storeVars => [Lifecycle!Next]_approvals
    <2> SUFFICES ASSUME IInv, IInv', InStep, [Next]_storeVars
                 PROVE  Lifecycle!Next
      OBVIOUS
    <2>1. \A a \in Approvals : Lifecycle!Move(approvals[a], approvals'[a])
      BY MoveImplements
    <2>2. approvals' \in [Approvals -> Lifecycle!Record \cup {Lifecycle!NoRecord}]
      BY DEF IInv, TypeOK, Store, Record, NoRecord, Lifecycle!Record, Lifecycle!NoRecord,
             Lifecycle!Decisions
    <2> QED
      BY <2>1, <2>2 DEF Lifecycle!Next
  <1> QED
    BY <1>1, <1>2, <1>3, PTL DEF Spec, KeepsLifecycle, Lifecycle!Spec
=============================================================================
